---- MODULE Spec2Model ----
(***************************************************************************)
(* AuthoritySpoke comparison algebra: ContextRegister merging, Predicate   *)
(* quantity comparison, the Factor structural engine, the Rule quantifier  *)
(* layer and the Holding layer, translated from the Python sources.        *)
(*                                                                         *)
(* Python generators are modelled as finite sequences of the values they   *)
(* yield, in order.  An insertion-ordered dict (ContextRegister) is a      *)
(* sequence of <<key, value>> pairs with pairwise distinct keys.           *)
(***************************************************************************)
EXTENDS Integers, Sequences, FiniteSets, TLC

VARIABLES
    pc,             \* which operation has been applied to the drawn inputs
    regSelf,        \* ContextRegister.merged_with: self
    incoming,       \* ContextRegister.merged_with: incoming_mapping
    merged,         \* ContextRegister.merged_with: returned value
    pargs,          \* Predicate(...): constructor arguments
    built,          \* Predicate(...): constructed object or raised error
    p, q,           \* two constructed Predicates
    pres,           \* results of p == q, p > q, q > p, p.contradicts(q), ...
    x, y,           \* two constructed Factors
    starting,       \* the ContextRegister a comparison of x and y starts from
    fres,           \* results of x.means(x), x.means(y), x.implies(y), ...
    renaming,       \* x.new_context: the replacements of generic Factors
    renamed,        \* result of the round trip of x through new_context
    rself, rother,  \* two constructed Rules
    yielded,        \* what the Procedure comparisons of the two Rules yield
    rres,           \* results of the comparisons of the two Rules
    hself, hother,  \* two constructed Holdings
    hyielded,       \* what the comparisons of their Rules' Procedures yield
    hres,           \* results of the comparisons of the two Holdings
    hargs,          \* Holding(...), evolve: the flags asked for
    hbuilt,         \* Holding(...): constructed object or raised error
    hderived,       \* what an operation on the constructed Holding returns
    tested,         \* a comparison, the object it is called on and its argument
    outcome,        \* what the comparison returns or raises
    opinion,        \* an Opinion: its holding_anchors and its factors
    posited,        \* the Holdings posited since the last clear_holdings
    called          \* the last call on the Opinion and what it did

registerVars == <<regSelf, incoming, merged>>
predicateVars == <<pargs, built, p, q, pres>>
factorVars == <<x, y, starting, fres, renaming, renamed>>
ruleVars == <<rself, rother, yielded, rres>>
holdingVars == <<hself, hother, hyielded, hres, hargs, hbuilt, hderived>>
typeVars == <<tested, outcome>>
opinionVars == <<opinion, posited, called>>
vars ==
    <<pc, registerVars, predicateVars, factorVars, ruleVars, holdingVars,
      typeVars, opinionVars>>

-----------------------------------------------------------------------------
(* Bounds *)

\* largest plain or unit-bearing magnitude drawn for a Predicate quantity
MaxMagnitude == 2

\* largest number of entries of a drawn ContextRegister
MaxRegister == 2

\* largest number of entries of the ContextRegister a Factor comparison
\* starts from
MaxContext == 1

\* largest number of items of a FactorSequence that is compared in order
MaxPositions == 2

\* largest number of Holdings of a HoldingGroup
MaxGroup == 2
MaxCalls == 2

\* largest number of inputs of the Procedure of a constructed Holding
MaxInputs == 2

-----------------------------------------------------------------------------
(* Generic sequence helpers *)

Range(s) == {s[i] : i \in DOMAIN s}

RECURSIVE Count(_, _)
Count(s, e) ==
    IF s = <<>> THEN 0
    ELSE (IF Head(s) = e THEN 1 ELSE 0) + Count(Tail(s), e)

\* all sequences of at most n pairs <<k, v>> with k in K and v in V
RECURSIVE PairSeqs(_, _, _)
PairSeqs(K, V, n) ==
    IF n = 0 THEN {<<>>}
    ELSE LET shorter == PairSeqs(K, V, n - 1) IN
         shorter \cup
         {Append(s, <<k, v>>) :
            s \in {t \in shorter : Len(t) = n - 1}, k \in K, v \in V}

-----------------------------------------------------------------------------
(* Predicates (spoke.py) *)

NoQuantity == [kind |-> "none", mag |-> 0, unit |-> ""]
Number(n) == [kind |-> "number", mag |-> n, unit |-> ""]
Quantity(n, u) == [kind |-> "quantity", mag |-> n, unit |-> u]

\* content strings and the number of "{}" in each (str.count)
Slots(content) ==
    CASE content = "it rained" -> 0
      [] content = "it snowed" -> 0
      [] content = "{} was filed" -> 1
      [] content = "{} met {}" -> 2
      [] content = "the distance between {} and {} was {}" -> 3
      [] content = "The Distance Between {} And {} Was {}" -> 3
      [] OTHER -> 0

\* str.lower
Lower(content) ==
    IF content = "The Distance Between {} And {} Was {}"
    THEN "the distance between {} and {} was {}"
    ELSE content

NoPredicate ==
    [content |-> "", truth |-> TRUE, reciprocal |-> FALSE,
     comparison |-> "", quantity |-> NoQuantity]

\* pint units: dimensionality and size in the dimension's base unit
Dimensionality(unit) == IF unit = "acre" THEN "area" ELSE "length"
UnitSize(unit) == IF unit = "yard" THEN 3 ELSE 1

\* magnitude in base units (a plain number is its own magnitude)
Base(quantity) ==
    IF quantity.kind = "quantity"
    THEN quantity.mag * UnitSize(quantity.unit)
    ELSE quantity.mag

IsQuantity(quantity) == quantity.kind = "quantity"

\* truth value of `quantity` in a condition: None and zero are false
QTruthy(quantity) == quantity.kind # "none" /\ quantity.mag # 0

\* quantity == quantity.  A unit-bearing quantity never equals None, a
\* quantity of another dimensionality or (its magnitude being nonzero) a
\* plain number.
QEq(a, b) ==
    CASE a.kind = "none" \/ b.kind = "none" -> a.kind = b.kind
      [] IsQuantity(a) # IsQuantity(b) -> FALSE
      [] IsQuantity(a) /\ Dimensionality(a.unit) # Dimensionality(b.unit)
            -> FALSE
      [] OTHER -> Base(a) = Base(b)

QLt(a, b) == Base(a) < Base(b)
QGt(a, b) == Base(a) > Base(b)

Comparisons == {">", ">=", "=", "<>", "<", "<="}

OPPOSITE_COMPARISONS(comparison) ==
    CASE comparison = ">" -> "<="
      [] comparison = ">=" -> "<"
      [] comparison = "=" -> "!="
      [] comparison = "<>" -> "="
      [] comparison = "<" -> ">="
      [] comparison = "<=" -> ">"

\* substring tests on a comparison string: "<" in comparison, ...
HasLt(comparison) == comparison \in {"<", "<=", "<>"}
HasGt(comparison) == comparison \in {">", ">=", "<>"}
HasEq(comparison) == comparison \in {"=", ">=", "<=", "==", "!="}

\* Predicate.__len__
PredicateLen(content, quantity) ==
    Slots(content) - (IF QTruthy(quantity) THEN 1 ELSE 0)

\* Predicate.__init__ followed by __post_init__: the object, or the
\* exception raised
Raised(error) == [error |-> error, value |-> NoPredicate]
Built(predicate) == [error |-> "", value |-> predicate]

PredicateInit(content, truth, reciprocal, comparison, quantity) ==
    LET c1 == IF comparison = "==" THEN "=" ELSE comparison
        c2 == IF c1 = "!=" THEN "<>" ELSE c1
        flip == c2 # "" /\ ~truth
    IN  IF PredicateLen(content, quantity) < 2 /\ reciprocal
        THEN Raised("ValueError")
        ELSE IF flip /\ c2 \notin Comparisons
        THEN Raised("KeyError")
        ELSE LET c3 == IF flip THEN OPPOSITE_COMPARISONS(c2) ELSE c2
                 t3 == IF flip THEN TRUE ELSE truth
             IN  IF c3 # "" /\ c3 \notin Comparisons
                 THEN Raised("ValueError")
                 ELSE Built([content |-> content, truth |-> t3,
                             reciprocal |-> reciprocal, comparison |-> c3,
                             quantity |-> quantity])

\* Predicate.__eq__
PredicateEq(self, other) ==
    /\ Lower(self.content) = Lower(other.content)
    /\ self.reciprocal = other.reciprocal
    /\ QEq(self.quantity, other.quantity)
    /\ \/ self.truth = other.truth /\ self.comparison = other.comparison
       \/ /\ self.comparison # ""
          /\ OPPOSITE_COMPARISONS(self.comparison) = other.comparison
          /\ self.truth # other.truth

\* Predicate.__gt__: whether self implies other
PredicateGt(self, other) ==
    IF PredicateEq(self, other) THEN TRUE
    ELSE IF ~(/\ Lower(self.content) = Lower(other.content)
              /\ self.reciprocal = other.reciprocal)
    THEN FALSE
    ELSE IF ~(/\ QTruthy(self.quantity) /\ QTruthy(other.quantity)
              /\ self.comparison # "" /\ other.comparison # "")
    THEN FALSE
    ELSE IF IsQuantity(self.quantity) # IsQuantity(other.quantity)
    THEN FALSE
    ELSE IF /\ IsQuantity(self.quantity)
            /\ Dimensionality(self.quantity.unit)
                  # Dimensionality(other.quantity.unit)
    THEN FALSE
    ELSE
      \/ /\ HasLt(self.comparison)
         /\ HasLt(other.comparison) \/ HasEq(other.comparison)
         /\ QLt(self.quantity, other.quantity)
      \/ /\ HasGt(self.comparison)
         /\ HasGt(other.comparison) \/ HasEq(other.comparison)
         /\ QGt(self.quantity, other.quantity)
      \/ /\ HasEq(self.comparison) /\ HasLt(other.comparison)
         /\ QLt(self.quantity, other.quantity)
      \/ /\ HasEq(self.comparison) /\ HasGt(other.comparison)
         /\ QGt(self.quantity, other.quantity)
      \/ /\ HasEq(self.comparison) /\ HasEq(other.comparison)
         /\ QEq(self.quantity, other.quantity)
      \/ /\ ~HasEq(self.comparison) /\ ~HasEq(other.comparison)
         /\ QEq(self.quantity, other.quantity)

\* the comparison rules of Predicate.contradicts when both quantities are set
ContradictsByQuantity(self, other) ==
    \/ /\ HasLt(self.comparison) \/ HasEq(self.comparison)
       /\ HasLt(other.comparison)
       /\ QGt(self.quantity, other.quantity)
    \/ /\ HasGt(self.comparison) \/ HasEq(self.comparison)
       /\ HasGt(other.comparison)
       /\ QLt(self.quantity, other.quantity)
    \/ /\ HasGt(self.comparison) /\ HasEq(other.comparison)
       /\ QGt(self.quantity, other.quantity)
    \/ /\ HasLt(self.comparison) /\ HasEq(other.comparison)
       /\ QLt(self.quantity, other.quantity)
    \/ /\ HasEq(self.comparison) /\ ~HasEq(other.comparison)
       /\ QEq(self.quantity, other.quantity)
    \/ /\ ~HasEq(self.comparison) /\ HasEq(other.comparison)
       /\ ~QEq(self.quantity, other.quantity)

\* Predicate.contradicts with the unit checks left out
ContradictsIgnoringUnits(self, other) ==
    IF ~(self.content = other.content /\ self.reciprocal = other.reciprocal)
    THEN "False"
    ELSE IF QTruthy(self.quantity) /\ QTruthy(other.quantity)
    THEN IF self.comparison = "" \/ other.comparison = ""
         THEN "TypeError"
         ELSE IF ContradictsByQuantity(self, other) THEN "True" ELSE "False"
    ELSE IF self.content = other.content /\ self.truth # other.truth
         THEN "True" ELSE "False"

\* Predicate.contradicts: "True", "False", or "TypeError" when the test
\* `"<" in self.comparison` meets a comparison that is None
PredicateContradicts(self, other) ==
    IF IsQuantity(self.quantity) # IsQuantity(other.quantity)
    THEN "False"
    ELSE IF /\ IsQuantity(self.quantity)
            /\ Dimensionality(self.quantity.unit)
                  # Dimensionality(other.quantity.unit)
    THEN "False"
    ELSE IF ~(self.content = other.content
              /\ self.reciprocal = other.reciprocal)
    THEN "False"
    ELSE IF QTruthy(self.quantity) /\ QTruthy(other.quantity)
    THEN IF self.comparison = "" \/ other.comparison = ""
         THEN "TypeError"
         ELSE IF ContradictsByQuantity(self, other) THEN "True" ELSE "False"
    ELSE IF self.content = other.content /\ self.truth # other.truth
         THEN "True" ELSE "False"

-----------------------------------------------------------------------------
(* Factors: records with one shape for every class; None is NoneF *)

NoneF ==
    [cls |-> "None", name |-> "", generic |-> FALSE, absent |-> FALSE,
     predicate |-> NoPredicate, standard_of_proof |-> "",
     context_factors |-> <<>>]

\* Pleading(filer, name, absent, generic)
Pleading(filer, name, absent, generic) ==
    [cls |-> "Pleading", name |-> name, generic |-> generic, absent |-> absent,
     predicate |-> NoPredicate, standard_of_proof |-> "",
     context_factors |-> <<filer>>]

\* Allegation(statement, pleading, name, absent, generic)
Allegation(statement, pleading, name, absent, generic) ==
    [cls |-> "Allegation", name |-> name, generic |-> generic,
     absent |-> absent, predicate |-> NoPredicate, standard_of_proof |-> "",
     context_factors |-> <<statement, pleading>>]

\* Fact(predicate, context_factors, name, standard_of_proof, absent, generic)
Fact(predicate, context_factors, name, standard_of_proof, absent, generic) ==
    [cls |-> "Fact", name |-> name, generic |-> generic, absent |-> absent,
     predicate |-> predicate, standard_of_proof |-> standard_of_proof,
     context_factors |-> context_factors]

\* Fact.__len__
FactLen(f) == Len(f.context_factors)

\* Python truth value of an object used in a condition: None is false, an
\* object with __len__ is false when its length is 0, any other object is true
Truthy(f) ==
    /\ f.cls # "None"
    /\ (f.cls = "Fact" => FactLen(f) # 0)

-----------------------------------------------------------------------------
(* ContextRegister (comparisons.py) *)

Keys(reg) == [i \in DOMAIN reg |-> reg[i][1]]
Values(reg) == [i \in DOMAIN reg |-> reg[i][2]]
Items(reg) == Range(reg)

\* dict.get(key): the value stored under key, or None
Get(reg, key) ==
    IF \E i \in DOMAIN reg : reg[i][1] = key
    THEN reg[CHOOSE i \in DOMAIN reg : reg[i][1] = key][2]
    ELSE NoneF

\* dict.__setitem__: an existing key keeps its position
Put(reg, key, value) ==
    IF \E i \in DOMAIN reg : reg[i][1] = key
    THEN [i \in DOMAIN reg |->
            IF reg[i][1] = key THEN <<key, value>> ELSE reg[i]]
    ELSE Append(reg, <<key, value>>)

\* dict equality ignores insertion order
SameRegister(r1, r2) == Items(r1) = Items(r2)

\* an Optional[ContextRegister]
NoRegister == [none |-> TRUE, reg |-> <<>>]
Some(reg) == [none |-> FALSE, reg |-> reg]

RECURSIVE MergeItems(_, _, _)
MergeItems(self_mapping, incoming_mapping, i) ==
    IF i > Len(incoming_mapping) THEN Some(self_mapping)
    ELSE
        LET in_key == incoming_mapping[i][1]
            in_value == incoming_mapping[i][2]
        IN  IF ~Truthy(in_value)
            THEN MergeItems(self_mapping, incoming_mapping, i + 1)
            ELSE IF /\ Truthy(Get(self_mapping, in_key))
                    /\ Get(self_mapping, in_key) # in_value
            THEN NoRegister
            ELSE LET updated == Put(self_mapping, in_key, in_value) IN
                 IF Count(Values(updated), in_value) > 1
                 THEN NoRegister
                 ELSE MergeItems(updated, incoming_mapping, i + 1)

merged_with(self, incoming_mapping) == MergeItems(self, incoming_mapping, 1)

\* {v: k for k, v in self.items()}: a value that occurs twice keeps the first
\* position and the last key
RECURSIVE ReversedAcc(_, _, _)
ReversedAcc(reg, i, acc) ==
    IF i > Len(reg) THEN acc
    ELSE ReversedAcc(reg, i + 1, Put(acc, reg[i][2], reg[i][1]))

reversed(reg) == ReversedAcc(reg, 1, <<>>)

-----------------------------------------------------------------------------
(* Factor structural engine (factors.py, facts.py) *)

IsNone(f) == f.cls = "None"

\* isinstance(other, self.__class__) for the concrete classes modelled
IsInstance(other, self) == ~IsNone(other) /\ other.cls = self.cls

\* Fact.standards_of_proof.index
StandardIndex(standard) ==
    CASE standard = "scintilla of evidence" -> 0
      [] standard = "substantial evidence" -> 1
      [] standard = "preponderance of evidence" -> 2
      [] standard = "clear and convincing" -> 3
      [] standard = "beyond reasonable doubt" -> 4

\* keep the first of any registers that are equal as dicts
RECURSIVE Dedupe(_)
Dedupe(regs) ==
    IF regs = <<>> THEN <<>>
    ELSE LET init == Dedupe(SubSeq(regs, 1, Len(regs) - 1))
             last == regs[Len(regs)]
         IN  IF \E i \in DOMAIN init : SameRegister(init[i], last)
             THEN init
             ELSE Append(init, last)

\* (register.reversed() for register in test)
ReversedEach(regs) == [i \in DOMAIN regs |-> reversed(regs[i])]

\* keys of a dict built by inserting the items of a sequence in order
RECURSIVE DictKeys(_)
DictKeys(s) ==
    IF s = <<>> THEN <<>>
    ELSE LET init == DictKeys(SubSeq(s, 1, Len(s) - 1))
             last == s[Len(s)]
         IN  IF \E i \in DOMAIN init : init[i] = last THEN init
             ELSE Append(init, last)

RECURSIVE generic_factors(_)
RECURSIVE GenericsFrom(_, _)

\* the generic_factors of context_factors[i..], concatenated
GenericsFrom(context_factors, i) ==
    IF i > Len(context_factors) THEN <<>>
    ELSE (IF IsNone(context_factors[i]) THEN <<>>
          ELSE generic_factors(context_factors[i]))
            \o GenericsFrom(context_factors, i + 1)

\* Factor.generic_factors
generic_factors(self) ==
    IF self.generic THEN <<self>>
    ELSE DictKeys(GenericsFrom(self.context_factors, 1))

\* Fact.interchangeable_factors
interchangeable_factors(self) ==
    IF self.cls = "Fact" /\ self.predicate.reciprocal
    THEN << Put(Put(<<>>, self.context_factors[2], self.context_factors[1]),
                self.context_factors[1], self.context_factors[2]) >>
    ELSE <<>>

\* ContextRegister.replace_keys: ContextRegister(zip(keys, values)) with
\* keys = [replacements.get(factor) or factor for factor in self.keys()]
RECURSIVE ReplaceKeysAcc(_, _, _, _)
ReplaceKeysAcc(reg, replacements, i, acc) ==
    IF i > Len(reg) THEN acc
    ELSE LET found == Get(replacements, reg[i][1])
             key == IF Truthy(found) THEN found ELSE reg[i][1]
         IN  ReplaceKeysAcc(reg, replacements, i + 1, Put(acc, key, reg[i][2]))

replace_keys(reg, replacements) == ReplaceKeysAcc(reg, replacements, 1, <<>>)

\* Factor._registers_for_interchangeable_context: the register, then its
\* version under each reordering of interchangeable context factors
_registers_for_interchangeable_context(self, matches) ==
    IF interchangeable_factors(self) = <<>> THEN <<matches>>
    ELSE Dedupe(<<matches,
                  replace_keys(matches, interchangeable_factors(self)[1])>>)

RECURSIVE means(_, _, _)
RECURSIVE implies(_, _, _)
RECURSIVE contradicts(_, _, _)
RECURSIVE explanations_same_meaning(_, _, _)
RECURSIVE explanations_implication(_, _, _)
RECURSIVE explanations_contradiction(_, _, _)
RECURSIVE _means_if_concrete(_, _, _)
RECURSIVE _implies_if_concrete(_, _, _)
RECURSIVE _implies_if_present(_, _, _)
RECURSIVE _contradicts_if_present(_, _, _)
RECURSIVE compare_context_factors(_, _, _)
RECURSIVE _context_registers(_, _, _, _)
RECURSIVE update_context_register(_, _, _, _)
RECURSIVE update_register(_, _, _, _, _)
RECURSIVE ForEachChoice(_, _, _, _, _, _)
RECURSIVE MergeVariations(_, _, _)

\* relation(left, right) for operator.ge and for the function alias means
Relation(relation, left, right) ==
    IF relation = "means" THEN means(left, right, <<>>)
    ELSE implies(left, right, <<>>)

\* Comparable.means
means(self, other, context) ==
    IF IsNone(other) THEN FALSE
    ELSE explanations_same_meaning(self, other, context) # <<>>

\* Comparable.implies
implies(self, other, context) ==
    IF IsNone(other) THEN TRUE
    ELSE explanations_implication(self, other, context) # <<>>

\* Comparable.contradicts
contradicts(self, other, context) ==
    IF IsNone(other) THEN FALSE
    ELSE explanations_contradiction(self, other, context) # <<>>

\* Factor.compare_context_factors
compare_context_factors(self, other, relation) ==
    \A i \in DOMAIN self.context_factors :
        LET self_factor == self.context_factors[i]
            other_factor == other.context_factors[i]
        IN  \/ IsNone(self_factor) /\ IsNone(other_factor)
            \/ /\ Truthy(self_factor)
               /\ Relation(relation, self_factor, other_factor)

\* Factor._context_registers
_context_registers(self, other, comparison, context) ==
    IF IsNone(other) THEN <<context>>
    ELSE IF self.generic \/ other.generic
    THEN IF IsNone(Get(context, self)) \/ Get(context, self) = other
         THEN << << <<self, other>> >> >>
         ELSE <<>>
    ELSE Dedupe(update_register(context, self.context_factors,
                                other.context_factors, comparison, 1))

\* the registers variations[k..] that merge into register
MergeVariations(register, variations, k) ==
    IF k > Len(variations) THEN <<>>
    ELSE LET register_or_none == merged_with(register, variations[k])
         IN  (IF register_or_none.none THEN <<>>
              ELSE <<register_or_none.reg>>)
                \o MergeVariations(register, variations, k + 1)

RECURSIVE MergeIncoming(_, _, _, _)
MergeIncoming(self, register, incoming_registers, j) ==
    IF j > Len(incoming_registers) THEN <<>>
    ELSE MergeVariations(
             register,
             _registers_for_interchangeable_context(self, incoming_registers[j]),
             1)
           \o MergeIncoming(self, register, incoming_registers, j + 1)

\* Factor.update_context_register
update_context_register(self, other, register, comparison) ==
    MergeIncoming(self, register,
                  _context_registers(self, other, comparison, <<>>), 1)

\* the recursion over new_mapping_choices in update_register
ForEachChoice(choices, k, self_seq, other_seq, operation, i) ==
    IF k > Len(choices) THEN <<>>
    ELSE update_register(choices[k], self_seq, other_seq, operation, i + 1)
           \o ForEachChoice(choices, k + 1, self_seq, other_seq, operation, i)

\* update_register inside FactorSequence.ordered_comparison, over
\* zip_longest(self, other)
update_register(register, self_seq, other_seq, operation, i) ==
    IF i > (IF Len(self_seq) >= Len(other_seq)
            THEN Len(self_seq) ELSE Len(other_seq))
    THEN <<register>>
    ELSE LET left == IF i <= Len(self_seq) THEN self_seq[i] ELSE NoneF
             right == IF i <= Len(other_seq) THEN other_seq[i] ELSE NoneF
         IN  IF ~IsNone(left) \/ IsNone(right)
             THEN IF IsNone(left)
                  THEN update_register(register, self_seq, other_seq,
                                       operation, i + 1)
                  ELSE ForEachChoice(
                           Dedupe(update_context_register(left, right,
                                                          register, operation)),
                           1, self_seq, other_seq, operation, i)
             ELSE <<>>

\* the same search started from an empty register
ordered_comparison_from_empty(self_seq, other_seq, operation, context) ==
    update_register(<<>>, self_seq, other_seq, operation, 1)

\* FactorSequence.ordered_comparison
ordered_comparison(self_seq, other_seq, operation, context) ==
    update_register(context, self_seq, other_seq, operation, 1)

\* Factor._means_if_concrete, and Fact._means_if_concrete before it
_means_if_concrete(self, other, context) ==
    IF /\ self.cls = "Fact" =>
             /\ IsInstance(other, self)
             /\ PredicateEq(self.predicate, other.predicate)
             /\ self.standard_of_proof = other.standard_of_proof
       /\ compare_context_factors(self, other, "means")
    THEN _context_registers(self, other, "means", context)
    ELSE <<>>

\* the tests Fact._implies_if_concrete makes before Factor's
FactImpliesIfConcrete(self, other) ==
    /\ IsInstance(other, self)
    /\ (self.standard_of_proof # "") = (other.standard_of_proof # "")
    /\ ~ /\ self.standard_of_proof # ""
         /\ StandardIndex(self.standard_of_proof)
               < StandardIndex(other.standard_of_proof)
    /\ PredicateGt(self.predicate, other.predicate)

\* Factor._implies_if_concrete, and Fact._implies_if_concrete before it
_implies_if_concrete(self, other, context) ==
    IF /\ self.cls = "Fact" => FactImpliesIfConcrete(self, other)
       /\ compare_context_factors(self, other, "ge")
    THEN _context_registers(self, other, "ge", context)
    ELSE <<>>

\* the register {self: other} is acceptable under context
IfUnassigned(self, other, context) ==
    IsNone(Get(context, self)) \/ Get(context, self) = other

\* Factor._implies_if_present
_implies_if_present(self, other, context) ==
    IF IsInstance(other, self)
    THEN (IF other.generic /\ IfUnassigned(self, other, context)
          THEN << << <<self, other>> >> >> ELSE <<>>)
           \o (IF ~self.generic THEN _implies_if_concrete(self, other, context)
               ELSE <<>>)
    ELSE <<>>

\* Factor._contradicts_if_present (yields nothing) and Fact's override
_contradicts_if_present(self, other, context) ==
    IF /\ self.cls = "Fact"
       /\ other.cls = "Fact"
       /\ PredicateContradicts(self.predicate, other.predicate) = "True"
    THEN _context_registers(self, other, "ge", context)
    ELSE <<>>

\* Factor.explanations_same_meaning
explanations_same_meaning(self, other, context) ==
    IF /\ ~IsNone(other)
       /\ self.cls = other.cls
       /\ self.absent = other.absent
       /\ self.generic = other.generic
    THEN (IF self.generic THEN << << <<self, other>> >> >> ELSE <<>>)
           \o _means_if_concrete(self, other, context)
    ELSE <<>>

\* the same generator with a present self and an absent other compared as if
\* both were present
explanations_implication_unswapped(self, other, context) ==
    IF IsInstance(other, self)
    THEN IF ~self.absent
         THEN _implies_if_present(self, other, context)
         ELSE ReversedEach(
                  IF other.absent
                  THEN _implies_if_present(other, self, reversed(context))
                  ELSE _contradicts_if_present(other, self, reversed(context)))
    ELSE <<>>

\* the same generator with two absent Factors compared in the order given
explanations_implication_same_operands(self, other, context) ==
    IF IsInstance(other, self)
    THEN IF ~self.absent
         THEN IF ~other.absent
              THEN _implies_if_present(self, other, context)
              ELSE _contradicts_if_present(self, other, context)
         ELSE IF other.absent
              THEN _implies_if_present(self, other, context)
              ELSE ReversedEach(
                       _contradicts_if_present(other, self,
                                               reversed(context)))
    ELSE <<>>

\* Factor.explanations_implication
explanations_implication(self, other, context) ==
    IF IsInstance(other, self)
    THEN IF ~self.absent
         THEN IF ~other.absent
              THEN _implies_if_present(self, other, context)
              ELSE _contradicts_if_present(self, other, context)
         ELSE ReversedEach(
                  IF other.absent
                  THEN _implies_if_present(other, self, reversed(context))
                  ELSE _contradicts_if_present(other, self, reversed(context)))
    ELSE <<>>

\* Factor.explanations_contradiction
explanations_contradiction(self, other, context) ==
    IF IsInstance(other, self)
    THEN IF ~self.absent
         THEN IF ~other.absent
              THEN _contradicts_if_present(self, other, context)
              ELSE _implies_if_present(self, other, context)
         ELSE ReversedEach(
                  IF ~other.absent
                  THEN _implies_if_present(other, self, reversed(context))
                  ELSE _contradicts_if_present(other, self, reversed(context)))
    ELSE <<>>

\* Factor.evolve("absent")
EvolveAbsent(self) == [self EXCEPT !.absent = ~self.absent]

\* what a call returns (error "") or the error it raises
Returned(value) == [error |-> "", value |-> value]
Failed(error) == [error |-> error, value |-> <<>>]

\* new_context_helper: the entries of changes whose key the factor means and
\* has the name of
Replacing(factor, changes) ==
    {i \in DOMAIN changes :
        /\ means(factor, changes[i][1], <<>>)
        /\ factor.name = changes[i][1].name}

\* Factor.new_context and Fact.new_context under new_context_helper: the
\* replacement of the first entry of changes that matches the factor, else
\* the factor with each context factor in the new context; a context factor
\* that is None has no new_context
RECURSIVE new_context(_, _)
new_context(factor, changes) ==
    IF IsNone(factor) THEN Failed("AttributeError")
    ELSE IF Replacing(factor, changes) # {}
    THEN Returned(changes[CHOOSE i \in Replacing(factor, changes) :
                             \A j \in Replacing(factor, changes) : i <= j][2])
    ELSE LET parts == [i \in DOMAIN factor.context_factors |->
                          new_context(factor.context_factors[i], changes)]
         IN  IF \E i \in DOMAIN parts : parts[i].error # ""
             THEN Failed("AttributeError")
             ELSE Returned([factor EXCEPT !.context_factors =
                               [i \in DOMAIN parts |-> parts[i].value]])

\* f.new_context(changes).new_context(changes.reversed()).means(f)
RoundTrip(f, changes) ==
    IF new_context(f, changes).error # ""
    THEN new_context(f, changes).error
    ELSE IF new_context(new_context(f, changes).value,
                        reversed(changes)).error # ""
    THEN new_context(new_context(f, changes).value, reversed(changes)).error
    ELSE IF means(new_context(new_context(f, changes).value,
                              reversed(changes)).value, f, <<>>)
    THEN "True" ELSE "False"

-----------------------------------------------------------------------------
(* Rules (rules.py) over Enactments and Procedure comparisons *)

\* an Enactment: the passages it selects from a source
Enactment(source, passages) == [source |-> source, passages |-> passages]

\* Enactment.__ge__: left quotes at least the text that right quotes
EnactmentGe(left, right) ==
    /\ left.source = right.source
    /\ right.passages \subseteq left.passages

\* what a call of a Procedure comparison does: it raises, or returns an
\* iterator that yields registers and then finishes or raises
Yields(registers) == [registers |-> registers, raises |-> "never"]
YieldsThenRaises(registers) ==
    [registers |-> registers, raises |-> "when iterated"]
RaisesWhenCalled == [registers |-> <<>>, raises |-> "when called"]

\* Rule(enactments, enactments_despite, mandatory, universal); outputs,
\* inputs and despite are those of its Procedure
Rule(enactments, enactments_despite, mandatory, universal) ==
    [cls |-> "Rule", enactments |-> enactments,
     enactments_despite |-> enactments_despite, mandatory |-> mandatory,
     universal |-> universal, generic |-> FALSE, outputs |-> <<>>,
     inputs |-> <<>>, despite |-> <<>>]

\* bool >= bool and bool > bool
BoolGe(left, right) == left \/ ~right
BoolGt(left, right) == left /\ ~right

\* Python truth value of a ContextRegister: an empty dict is false
RegisterTruthy(reg) == reg # <<>>

\* Rule.needs_subset_of_enactments
needs_subset_of_enactments(self, other) ==
    /\ \A i \in DOMAIN self.enactments :
          \E j \in DOMAIN other.enactments :
              EnactmentGe(other.enactments[j], self.enactments[i])
    /\ \A k \in DOMAIN other.enactments_despite :
          LET either == self.enactments \o self.enactments_despite
          IN  \E i \in DOMAIN either :
                  EnactmentGe(either[i], other.enactments_despite[k])

\* the same generator without the test of the MUST/MAY flags
explain_implication_any_mandatory(self, other, comparisons) ==
    IF /\ needs_subset_of_enactments(self, other)
       /\ BoolGe(self.universal, other.universal)
    THEN IF BoolGt(self.universal, other.universal)
         THEN comparisons.all_to_some
         ELSE IF other.universal THEN comparisons.all_to_all
         ELSE comparisons.plain
    ELSE <<>>

\* Rule.explain_implication: comparisons holds what
\* self.procedure.explain_implication_all_to_some(other.procedure, context),
\* ...all_to_all(...) and self.procedure.explain_implication(...) yield
explain_implication(self, other, comparisons) ==
    IF /\ needs_subset_of_enactments(self, other)
       /\ BoolGe(self.mandatory, other.mandatory)
       /\ BoolGe(self.universal, other.universal)
    THEN IF BoolGt(self.universal, other.universal)
         THEN comparisons.all_to_some
         ELSE IF other.universal THEN comparisons.all_to_all
         ELSE comparisons.plain
    ELSE <<>>

\* Rule.implies: any(self.explain_implication(other, context))
RuleImplies(self, other, comparisons) ==
    \E i \in DOMAIN explain_implication(self, other, comparisons) :
        RegisterTruthy(explain_implication(self, other, comparisons)[i])

\* any(register is not None for register in generators), the generators
\* iterated in order: True at the first item, an error if a generator raises
\* before any item, False if all finish without an item
RECURSIVE AnyNotNone(_, _)
AnyNotNone(generators, i) ==
    IF i > Len(generators) THEN "False"
    ELSE IF generators[i].registers # <<>> THEN "True"
    ELSE IF generators[i].raises = "when iterated" THEN "Error"
    ELSE AnyNotNone(generators, i + 1)

\* Rule.explain_contradiction: the iterators self_to_other and other_to_self
\* in the order they are iterated, each once, other_to_self first when only
\* self is universal
explain_contradiction(self, other, self_to_other, other_to_self) ==
    IF self.universal /\ ~other.universal
    THEN <<other_to_self, self_to_other>>
    ELSE <<self_to_other, other_to_self>>

\* any(register is not None for register in self.explain_contradiction(...)):
\* both Procedure comparisons are called before either is iterated
AnyContradiction(self, other, self_to_other, other_to_self) ==
    IF "when called" \in {self_to_other.raises, other_to_self.raises}
    THEN "Error"
    ELSE AnyNotNone(
             explain_contradiction(self, other, self_to_other, other_to_self),
             1)

\* the same method without the test of the ALL/SOME flags
RuleContradictsAnyQuantifier(self, other, self_to_other, other_to_self) ==
    IF ~self.mandatory /\ ~other.mandatory THEN "False"
    ELSE AnyContradiction(self, other, self_to_other, other_to_self)

\* Rule.contradicts
RuleContradicts(self, other, self_to_other, other_to_self) ==
    IF ~self.mandatory /\ ~other.mandatory THEN "False"
    ELSE IF ~self.universal /\ ~other.universal THEN "False"
    ELSE AnyContradiction(self, other, self_to_other, other_to_self)

-----------------------------------------------------------------------------
(* Holdings (holdings.py) *)

\* what iterating a generator of explanations does: it yields registers and
\* then finishes (error "") or raises error
Gen(registers, error) == [registers |-> registers, error |-> error]
NoGen == Gen(<<>>, "")

\* itertools.chain(first, second), and one generator that yields from first
\* and then from second
Chain(first, second) ==
    IF first.error # "" THEN first
    ELSE Gen(first.registers \o second.registers, second.error)

\* any(explanation is not None for explanation in generator): True at the
\* first item, else the error raised, else False
AnyExplanation(generator) ==
    IF generator.registers # <<>> THEN "True"
    ELSE IF generator.error # "" THEN generator.error
    ELSE "False"

\* Holding(rule, rule_valid, decided, exclusive, generic)
Holding(rule, rule_valid, decided, exclusive, generic) ==
    [cls |-> "Holding", rule |-> rule, rule_valid |-> rule_valid,
     decided |-> decided, exclusive |-> exclusive, generic |-> generic]

\* Factor._implies_if_concrete with self and other the Rules of the two
\* Holdings: what it yields rests on Procedure.context_factors and on
\* Factor._context_registers, and is drawn
concrete_implication(self, other) ==
    IF self = hself.rule /\ other = hother.rule THEN hyielded.forward
    ELSE hyielded.backward

\* Factor.explanations_implication with self and other Rules: a Rule has no
\* absent attribute, so __dict__.get("absent") is None on both sides and
\* Factor._implies_if_present decides
RuleExplanationsImplication(self, other, context) ==
    Gen((IF other.generic /\ IfUnassigned(self, other, context)
         THEN << << <<self, other>> >> >> ELSE <<>>)
          \o (IF ~self.generic THEN concrete_implication(self, other)
              ELSE <<>>),
        "")

\* Factor.explanations_contradiction with self and other Rules: neither is
\* absent and Factor._contradicts_if_present yields nothing
RuleExplanationsContradiction(self, other, context) == NoGen

\* Factor.explanations_same_meaning with self and other Rules: reading
\* self.absent raises AttributeError
RuleExplanationsSameMeaning(self, other, context) ==
    Gen(<<>>, "AttributeError")

\* Holding.negated: evolve({"rule_valid": not self.rule_valid,
\* "exclusive": False})
negated(self) ==
    Holding(self.rule, ~self.rule_valid, self.decided, FALSE, self.generic)

\* Holding._implies_if_decided
_implies_if_decided(self, other, context) ==
    IF self.rule_valid /\ other.rule_valid
    THEN RuleExplanationsImplication(self.rule, other.rule, context)
    ELSE IF ~self.rule_valid /\ ~other.rule_valid
    THEN RuleExplanationsImplication(other.rule, self.rule, context)
    ELSE RuleExplanationsContradiction(self.rule, other.rule, context)

\* Holding.explanations_same_meaning
HoldingExplanationsSameMeaning(self, other, context) ==
    IF /\ other.cls = "Holding"
       /\ self.rule_valid = other.rule_valid
       /\ self.decided = other.decided
    THEN RuleExplanationsSameMeaning(self.rule, other.rule, context)
    ELSE NoGen

\* Comparable.means on a Holding
HoldingMeans(self, other, context) ==
    AnyExplanation(HoldingExplanationsSameMeaning(self, other, context))

\* Holding._explanations_implies_if_not_exclusive
_explanations_implies_if_not_exclusive(self, other, context) ==
    IF other.cls # "Holding" THEN Gen(<<>>, "TypeError")
    ELSE IF self.decided /\ other.decided
    THEN _implies_if_decided(self, other, context)
    ELSE IF ~self.decided /\ ~other.decided
    THEN Chain(HoldingExplanationsSameMeaning(self, other, context),
               HoldingExplanationsSameMeaning(self, negated(other), context))
    ELSE NoGen

\* the same method with the implication of the undecided branch running from
\* self to other
_contradicts_if_not_exclusive_from_self(self, other, context) ==
    IF other.cls = "Holding" /\ other.decided
    THEN IF self.decided
         THEN _explanations_implies_if_not_exclusive(self, negated(other),
                                                     context)
         ELSE Chain(_implies_if_decided(self, other, <<>>),
                    _implies_if_decided(negated(self), other, <<>>))
    ELSE NoGen

\* the same method without the test that other is decided
_contradicts_if_not_exclusive_of_any(self, other, context) ==
    IF other.cls = "Holding"
    THEN IF self.decided
         THEN _explanations_implies_if_not_exclusive(self, negated(other),
                                                     context)
         ELSE Chain(_implies_if_decided(other, self, <<>>),
                    _implies_if_decided(other, negated(self), <<>>))
    ELSE NoGen

\* Holding._contradicts_if_not_exclusive
_contradicts_if_not_exclusive(self, other, context) ==
    IF other.cls = "Holding" /\ other.decided
    THEN IF self.decided
         THEN _explanations_implies_if_not_exclusive(self, negated(other),
                                                     context)
         ELSE Chain(_implies_if_decided(other, self, <<>>),
                    _implies_if_decided(other, negated(self), <<>>))
    ELSE NoGen

\* the same constructor without the test of decided
HoldingInitDecidedUnchecked(rule, rule_valid, decided, exclusive, generic) ==
    IF exclusive /\ ~rule_valid THEN Failed("NotImplementedError")
    ELSE Returned(<<Holding(rule, rule_valid, decided, exclusive, generic)>>)

\* Holding.__init__ and __post_init__
HoldingInit(rule, rule_valid, decided, exclusive, generic) ==
    IF exclusive /\ ~rule_valid THEN Failed("NotImplementedError")
    ELSE IF exclusive /\ ~decided THEN Failed("NotImplementedError")
    ELSE Returned(<<Holding(rule, rule_valid, decided, exclusive, generic)>>)

\* Python's `value or default` on tuples and lists
OrElse(value, default) == IF value # <<>> THEN value ELSE default

\* Rule.evolve with the changes of get_contrapositives: own_attributes keeps
\* the procedure and drops its outputs, inputs and despite, and __post_init__
\* builds Procedure(self.outputs or self.procedure.outputs, ...)
EvolveRule(self, mandatory, universal, inputs, outputs) ==
    [self EXCEPT !.mandatory = mandatory, !.universal = universal,
                 !.outputs = OrElse(outputs, self.outputs),
                 !.inputs = OrElse(inputs, self.inputs),
                 !.despite = OrElse(<<>>, self.despite)]

\* the same generator keeping the MUST/MAY and ALL/SOME flags
get_contrapositives_same_flags(self) ==
    IF Len(self.outputs) # 1 THEN Failed("ValueError")
    ELSE IF self.outputs[1].absent THEN Failed("ValueError")
    ELSE IF self.inputs = <<>> THEN Failed("ValueError")
    ELSE Returned([k \in DOMAIN self.inputs |->
                      EvolveRule(self, self.mandatory, self.universal,
                                 <<EvolveAbsent(self.inputs[k])>>,
                                 <<[self.outputs[1] EXCEPT !.absent = TRUE]>>)])

\* Rule.get_contrapositives, iterated to its end
get_contrapositives(self) ==
    IF Len(self.outputs) # 1 THEN Failed("ValueError")
    ELSE IF self.outputs[1].absent THEN Failed("ValueError")
    ELSE IF self.inputs = <<>> THEN Failed("ValueError")
    ELSE Returned([k \in DOMAIN self.inputs |->
                      EvolveRule(self, ~self.mandatory, ~self.universal,
                                 <<EvolveAbsent(self.inputs[k])>>,
                                 <<[self.outputs[1] EXCEPT !.absent = TRUE]>>)])

\* Holding.inferred_from_exclusive
inferred_from_exclusive(self) ==
    IF self.exclusive
    THEN IF get_contrapositives(self.rule).error # ""
         THEN get_contrapositives(self.rule)
         ELSE Returned([k \in DOMAIN get_contrapositives(self.rule).value |->
                           Holding(get_contrapositives(self.rule).value[k],
                                   TRUE, TRUE, FALSE, FALSE)])
    ELSE Returned(<<>>)

\* Holding.evolve of the flags of the Holding
EvolveHolding(self, rule_valid, decided, exclusive) ==
    HoldingInit(self.rule, rule_valid, decided, exclusive, self.generic)

\* Procedure.new_context on one group of Factors: each Factor in the new
\* context, or the first error
NewContextEach(factors, changes) ==
    IF \E i \in DOMAIN factors : new_context(factors[i], changes).error # ""
    THEN Failed("AttributeError")
    ELSE Returned([i \in DOMAIN factors |->
                      new_context(factors[i], changes).value])

\* Rule.new_context: Factor.new_context with the Procedure in the new context
RuleNewContext(self, changes) ==
    IF \E group \in {self.outputs, self.inputs, self.despite} :
           NewContextEach(group, changes).error # ""
    THEN Failed("AttributeError")
    ELSE Returned(<<[self EXCEPT
                       !.outputs = NewContextEach(self.outputs, changes).value,
                       !.inputs = NewContextEach(self.inputs, changes).value,
                       !.despite =
                           NewContextEach(self.despite, changes).value]>>)

\* Procedure.__add__: None (no value) when self triggers other under no
\* context; else self with the outputs of other, taken into the first context
\* found, added to its own
ProcedureAdd(self, other, found) ==
    IF found = <<>> THEN Returned(<<>>)
    ELSE IF NewContextEach(other.outputs, reversed(found[1])).error # ""
    THEN NewContextEach(other.outputs, reversed(found[1]))
    ELSE Returned(<<[outputs |->
                        DictKeys(self.outputs
                                   \o NewContextEach(other.outputs,
                                                     reversed(found[1])).value),
                     inputs |-> self.inputs,
                     despite |-> self.despite]>>)

\* min(left, right) of two bools
BoolMin(left, right) == left /\ right

\* the same addition with the greater of the flags of the two Rules
RuleAddGreaterFlags(self, other, found) ==
    IF ~self.universal /\ ~other.universal THEN Returned(<<>>)
    ELSE IF ~needs_subset_of_enactments(other, self) THEN Returned(<<>>)
    ELSE IF ProcedureAdd(self, other, found).error # ""
    THEN ProcedureAdd(self, other, found)
    ELSE IF ProcedureAdd(self, other, found).value = <<>>
    THEN Returned(<<>>)
    ELSE Returned(<<[self EXCEPT
                       !.outputs = ProcedureAdd(self, other, found).value[1]
                                       .outputs,
                       !.inputs = ProcedureAdd(self, other, found).value[1]
                                       .inputs,
                       !.despite = ProcedureAdd(self, other, found).value[1]
                                       .despite,
                       !.universal = self.universal \/ other.universal,
                       !.mandatory = self.mandatory \/ other.mandatory]>>)

\* Rule.__add__ of two Rules: None (no value), or self evolved to the new
\* Procedure and the lesser flags
RuleAdd(self, other, found) ==
    IF ~self.universal /\ ~other.universal THEN Returned(<<>>)
    ELSE IF ~needs_subset_of_enactments(other, self) THEN Returned(<<>>)
    ELSE IF ProcedureAdd(self, other, found).error # ""
    THEN ProcedureAdd(self, other, found)
    ELSE IF ProcedureAdd(self, other, found).value = <<>>
    THEN Returned(<<>>)
    ELSE Returned(<<[self EXCEPT
                       !.outputs =
                           OrElse(<<>>, ProcedureAdd(self, other, found)
                                            .value[1].outputs),
                       !.inputs =
                           OrElse(<<>>, ProcedureAdd(self, other, found)
                                            .value[1].inputs),
                       !.despite =
                           OrElse(<<>>, ProcedureAdd(self, other, found)
                                            .value[1].despite),
                       !.universal = BoolMin(self.universal, other.universal),
                       !.mandatory =
                           BoolMin(self.mandatory, other.mandatory)]>>)

\* Holding.new_context with changes that replace Factors
HoldingNewContext(self, changes) ==
    IF RuleNewContext(self.rule, changes).error # ""
    THEN RuleNewContext(self.rule, changes)
    ELSE HoldingInit(RuleNewContext(self.rule, changes).value[1],
                     self.rule_valid, self.decided, FALSE, FALSE)

\* Holding.nonexclusive_holdings
nonexclusive_holdings(self) ==
    IF ~self.exclusive THEN Returned(<<self>>)
    ELSE IF EvolveHolding(self, self.rule_valid, self.decided,
                          ~self.exclusive).error # ""
    THEN EvolveHolding(self, self.rule_valid, self.decided, ~self.exclusive)
    ELSE IF inferred_from_exclusive(self).error # ""
    THEN inferred_from_exclusive(self)
    ELSE Returned(EvolveHolding(self, self.rule_valid, self.decided,
                                ~self.exclusive).value
                    \o inferred_from_exclusive(self).value)

\* Procedure.context_factors of the Procedure of a Rule: its outputs, inputs
\* and despite Factors, in this order
ProcedureContextFactors(rule) == rule.outputs \o rule.inputs \o rule.despite

\* Procedure.generic_factors
ProcedureGenericFactors(rule) ==
    DictKeys(GenericsFrom(ProcedureContextFactors(rule), 1))

\* Rule.generic_factors
RuleGenericFactors(self) ==
    IF self.generic THEN <<self>> ELSE ProcedureGenericFactors(self)

\* Holding.generic_factors
HoldingGenericFactors(self) == RuleGenericFactors(self.rule)

\* Holding.context_factors
HoldingContextFactors(self) == ProcedureContextFactors(self.rule)

\* Holding.explanations_implication of two Holdings that are not exclusive
HoldingExplanationsImplication(self, other, context) ==
    _explanations_implies_if_not_exclusive(self, other, context)

\* Holding.implies with other a Holding
HoldingImplies(self, other, context) ==
    AnyExplanation(HoldingExplanationsImplication(self, other, context))

\* Holding.explanations_contradiction with other a Holding, neither exclusive:
\* nonexclusive_holdings is [self] and [other], and each register is wrapped
\* in an Explanation
HoldingExplanationsContradiction(self, other, context) ==
    _contradicts_if_not_exclusive(self, other, context)

\* Comparable.contradicts on a Holding
HoldingContradicts(self, other, context) ==
    AnyExplanation(HoldingExplanationsContradiction(self, other, context))

\* HoldingGroup.verbose_comparison with operator.ge: the Explanations, each
\* a list of matches, that iterating it yields, and the error it raises
RECURSIVE verbose_comparison(_, _, _)
RECURSIVE MatchEach(_, _, _, _)

\* the loop over self[k..]: a Holding that implies the last Holding still
\* needed yields next() of the search for the rest; next() of a generator
\* that yields nothing raises StopIteration, which leaves the generator
\* around it as RuntimeError
MatchEach(self, k, still_need_matches, explanation) ==
    IF k > Len(self) THEN NoGen
    ELSE LET other_holding == still_need_matches[Len(still_need_matches)]
             rest == SubSeq(still_need_matches, 1,
                            Len(still_need_matches) - 1)
             test == HoldingImplies(self[k], other_holding, <<>>)
             next_step ==
                 verbose_comparison(
                     self, rest, Append(explanation, <<self[k], other_holding>>))
         IN  IF test \notin {"True", "False"} THEN Gen(<<>>, test)
             ELSE IF test = "False"
             THEN MatchEach(self, k + 1, still_need_matches, explanation)
             ELSE IF next_step.registers # <<>>
             THEN Chain(Gen(<<next_step.registers[1]>>, ""),
                        MatchEach(self, k + 1, still_need_matches,
                                  explanation))
             ELSE IF next_step.error # "" THEN next_step
             ELSE Gen(<<>>, "RuntimeError")

verbose_comparison(self, still_need_matches, explanation) ==
    IF still_need_matches = <<>> THEN Gen(<<explanation>>, "")
    ELSE MatchEach(self, 1, still_need_matches, explanation)

\* HoldingGroup.explanations_implication with other a HoldingGroup
GroupExplanationsImplication(self, other) ==
    verbose_comparison(self, other, <<>>)

-----------------------------------------------------------------------------
(* Opinions (opinions.py): the Holdings posited and their anchors *)

\* Opinion.__post_init__: holding_anchors and factors are empty
\* defaultdict(list)s, kept here in insertion order as <<key, list>> pairs
NewOpinion == [holding_anchors |-> <<>>, factors |-> <<>>]

\* dict.get(key) of a dict of lists: the list, or the empty (false) value
ListAt(dict, key) ==
    IF \E i \in DOMAIN dict : dict[i][1] = key
    THEN dict[CHOOSE i \in DOMAIN dict : dict[i][1] = key][2]
    ELSE <<>>

\* defaultdict(list).__getitem__: a missing key is inserted with an empty list
Touched(dict, key) ==
    IF \E i \in DOMAIN dict : dict[i][1] = key THEN dict
    ELSE Append(dict, <<key, <<>> >>)

\* defaultdict(list)[key].extend(items)
Extended(dict, key, items) ==
    [i \in DOMAIN Touched(dict, key) |->
        IF Touched(dict, key)[i][1] = key
        THEN <<key, Touched(dict, key)[i][2] \o items>>
        ELSE Touched(dict, key)[i]]

\* Opinion.holdings: the keys of holding_anchors, as a list
OpinionHoldingsOf(self) ==
    [i \in DOMAIN self.holding_anchors |-> self.holding_anchors[i][1]]

\* what a call on an Opinion does: the Opinion after it, the error raised
\* ("" for none), the Holdings it recorded and the value it returned
Call(self, error, recorded, returned) ==
    [opinion |-> self, error |-> error, recorded |-> recorded,
     returned |-> returned]

\* dict(zip(generic_factors, changes))
ZipChanges(generics, changes) ==
    [i \in DOMAIN changes |-> <<generics[i], changes[i]>>]

\* new_context_helper for a list of replacements of the generic_factors given as generics
NewContextOfGenerics(holding, generics, changes) ==
    IF Len(generics) < Len(changes) THEN Failed("ValueError")
    ELSE HoldingNewContext(holding, ZipChanges(generics, changes))

\* new_context_helper for a list of replacements: they replace the
\* generic_factors of the Holding in order
HoldingNewContextFromList(holding, context) ==
    NewContextOfGenerics(holding, HoldingGenericFactors(holding), context)

\* Factor.recursive_factors of a Holding whose context factors have none of
\* their own: the Holding, then its context factors
HoldingRecursiveFactors(holding) ==
    DictKeys(<<holding>> \o HoldingContextFactors(holding))

\* factor.name: Holdings and Rules have no attribute of this name
HasName(factor) == factor.cls \notin {"Holding", "Rule"}

\* the loop of posit_holding over holding.recursive_factors, from the i-th
RECURSIVE LinkFactors(_, _, _, _)
LinkFactors(self, recursive, i, factor_text_links) ==
    IF i > Len(recursive) THEN Returned(<<self>>)
    ELSE IF ~HasName(recursive[i]) THEN Failed("AttributeError")
    ELSE IF \E j \in DOMAIN factor_text_links :
                factor_text_links[j][1] = recursive[i].name
    THEN LinkFactors(
             [self EXCEPT !.factors =
                 Extended(@, recursive[i],
                          ListAt(factor_text_links, recursive[i].name))],
             recursive, i + 1, factor_text_links)
    ELSE LinkFactors(self, recursive, i + 1, factor_text_links)

\* posit_holding after its loop over the Factors: the Holding is recorded,
\* whether the loop raised or not
AfterLinks(recorded, holding, linked) ==
    IF linked.error # "" THEN Call(recorded, linked.error, <<holding>>, <<>>)
    ELSE Call(linked.value[1], "", <<holding>>, <<>>)

\* posit_holding from `if factor_text_links:` on
LinkHolding(recorded, holding, factor_text_links) ==
    IF factor_text_links = <<>> THEN Call(recorded, "", <<holding>>, <<>>)
    ELSE AfterLinks(recorded, holding,
                    LinkFactors(recorded, HoldingRecursiveFactors(holding),
                                1, factor_text_links))

\* posit_holding from the call of new_context on: in_context is what the
\* call returned or raised
RecordHolding(self, in_context, text_links, factor_text_links) ==
    IF in_context.error # "" THEN Call(self, in_context.error, <<>>, <<>>)
    ELSE LinkHolding([self EXCEPT !.holding_anchors =
                         Extended(@, in_context.value[1], text_links)],
                     in_context.value[1], factor_text_links)

\* posit_holding: `if context: holding = holding.new_context(context, ...)`
InContext(holding, context) ==
    IF context = <<>> THEN Returned(<<holding>>)
    ELSE HoldingNewContextFromList(holding, context)

\* posit_holding: a Rule is converted to a Holding
AsHolding(holding) ==
    IF holding.cls = "Rule" THEN Holding(holding, TRUE, TRUE, FALSE, FALSE)
    ELSE holding

\* Opinion.posit_holding
PositHolding(self, holding, text_links, factor_text_links, context) ==
    IF holding.cls \notin {"Rule", "Holding"}
    THEN Call(self, "TypeError", <<>>, <<>>)
    ELSE RecordHolding(self, InContext(AsHolding(holding), context),
                       text_links, factor_text_links)

\* zip_longest(holdings, text_links): the shorter list is filled with None
ZipLongest(holdings, text_links) ==
    [i \in 1..(IF Len(holdings) > Len(text_links) THEN Len(holdings)
               ELSE Len(text_links)) |->
        <<IF i <= Len(holdings) THEN holdings[i] ELSE NoneF,
          IF i <= Len(text_links) THEN text_links[i] ELSE <<>> >>]

\* the loop of posit_holdings from the i-th pair: the first call that raises
\* ends it
RECURSIVE PositEach(_, _, _, _, _, _)
RECURSIVE AfterPosit(_, _, _, _, _, _)
AfterPosit(step, pairs, i, factor_text_links, context, recorded) ==
    IF step.error # ""
    THEN Call(step.opinion, step.error, recorded \o step.recorded, <<>>)
    ELSE PositEach(step.opinion, pairs, i + 1, factor_text_links, context,
                   recorded \o step.recorded)

PositEach(self, pairs, i, factor_text_links, context, recorded) ==
    IF i > Len(pairs) THEN Call(self, "", recorded, <<>>)
    ELSE AfterPosit(PositHolding(self, pairs[i][1], pairs[i][2],
                                 factor_text_links, context),
                    pairs, i, factor_text_links, context, recorded)

\* Opinion.posit_holdings
PositHoldings(self, holdings, text_links, factor_text_links, context) ==
    PositEach(self, ZipLongest(holdings, text_links), 1, factor_text_links,
              context, <<>>)

\* Procedure.factors_all of the Procedure of a Rule
ProcedureFactorsAll(rule) == ProcedureContextFactors(rule)

\* the anchors of the Factors of the list that have anchors, in order
RECURSIVE FactorAnchors(_, _, _)
FactorAnchors(self, factors_all, i) ==
    IF i > Len(factors_all) THEN <<>>
    ELSE ListAt(self.factors, factors_all[i])
             \o FactorAnchors(self, factors_all, i + 1)

\* Opinion.get_anchors
GetAnchors(self, holding, include_factors) ==
    Call([self EXCEPT !.holding_anchors = Touched(@, holding)], "", <<>>,
         (IF include_factors
          THEN FactorAnchors(self, ProcedureFactorsAll(holding.rule), 1)
          ELSE <<>>) \o ListAt(self.holding_anchors, holding))

\* Opinion.clear_holdings
ClearHoldings(self) ==
    Call([self EXCEPT !.holding_anchors = <<>>], "", <<>>, <<>>)

-----------------------------------------------------------------------------
(* Comparisons with None, with other kinds of Factor and with other objects *)

\* an object that is not a Factor, such as a bare Predicate
NotAFactor == [cls |-> "Predicate"]

\* isinstance(other, Factor): Rule and Holding are Factors
IsFactor(other) ==
    other.cls \in {"Pleading", "Allegation", "Fact", "Rule", "Holding"}

\* the bool a comparison returns
Truth(value) == IF value THEN "True" ELSE "False"

\* what the Procedure comparisons yield for Procedures without Factors
NothingYielded ==
    [all_to_some |-> <<>>, all_to_all |-> <<>>, plain |-> <<>>]

\* Comparable.implies and Comparable.contradicts on a Pleading, Allegation or
\* Fact, over Factor.explanations_implication and explanations_contradiction
FactorTest(operation, self, other) ==
    IF other.cls = "None"
    THEN Truth(operation = "implies")
    ELSE IF ~IsFactor(other) THEN "TypeError"
    ELSE IF other.cls # self.cls THEN "False"
    ELSE IF operation = "implies" THEN Truth(implies(self, other, <<>>))
    ELSE Truth(contradicts(self, other, <<>>))

\* Rule.implies and Rule.contradicts: contradicts accepts a Rule only, and
\* implies reads other.enactments_despite, which a Rule and a Holding have
RuleTest(operation, self, other) ==
    IF operation = "contradicts"
    THEN IF other.cls # "Rule" THEN "TypeError"
         ELSE RuleContradicts(self, other, Yields(<<>>), Yields(<<>>))
    ELSE IF other.cls = "Rule"
    THEN Truth(RuleImplies(self, other, NothingYielded))
    ELSE IF other.cls = "Holding"
    THEN Truth(RuleImplies(self, other.rule, NothingYielded))
    ELSE "AttributeError"

\* Holding.implies, and Comparable.contradicts over
\* Holding.explanations_contradiction
HoldingTest(operation, self, other) ==
    IF operation = "implies"
    THEN IF other.cls = "None" THEN "True"
         ELSE IF other.cls = "Rule"
         THEN HoldingImplies(self, Holding(other, TRUE, TRUE, FALSE, FALSE),
                             <<>>)
         ELSE IF other.cls # "Holding" THEN "False"
         ELSE HoldingImplies(self, other, <<>>)
    ELSE IF other.cls = "None" THEN "False"
         ELSE IF other.cls = "Rule"
         THEN HoldingContradicts(self,
                                 Holding(other, TRUE, TRUE, FALSE, FALSE),
                                 <<>>)
         ELSE IF other.cls = "Holding"
         THEN HoldingContradicts(self, other, <<>>)
         ELSE IF IsFactor(other) THEN "False"
         ELSE "TypeError"

\* self.implies(other) or self.contradicts(other)
TestOther(operation, self, other) ==
    IF self.cls = "Rule" THEN RuleTest(operation, self, other)
    ELSE IF self.cls = "Holding" THEN HoldingTest(operation, self, other)
    ELSE FactorTest(operation, self, other)

-----------------------------------------------------------------------------
(* Drawn inputs for the register operations *)

RegFactors ==
    { Pleading(NoneF, "a", FALSE, TRUE),
      Pleading(NoneF, "b", FALSE, TRUE),
      Fact([NoPredicate EXCEPT !.content = "it rained"], <<>>, "", "",
           FALSE, TRUE) }

DistinctKeys(reg) ==
    \A i, j \in DOMAIN reg : reg[i][1] = reg[j][1] => i = j

Registers ==
    {reg \in PairSeqs(RegFactors, RegFactors, MaxRegister) : DistinctKeys(reg)}

OneToOne(reg) ==
    /\ DistinctKeys(reg)
    /\ \A i, j \in DOMAIN reg : reg[i][2] = reg[j][2] => i = j

-----------------------------------------------------------------------------
(* Drawn inputs for the Predicate operations *)

Units == {"foot", "yard", "acre"}

\* None, plain numbers from 0, and unit-bearing quantities of nonzero magnitude
Quantities ==
    {NoQuantity}
        \cup {Number(n) : n \in 0..MaxMagnitude}
        \cup {Quantity(n, u) : n \in 1..MaxMagnitude, u \in Units}

DistanceContents ==
    {"the distance between {} and {} was {}",
     "The Distance Between {} And {} Was {}"}

\* constructor arguments, valid and invalid
PredicateArgs ==
    [content : DistanceContents, truth : BOOLEAN, reciprocal : BOOLEAN,
     comparison : Comparisons \cup {"", "==", "!=", ">>"},
     quantity : Quantities]
        \cup
    [content : {"{} met {}", "it rained"}, truth : BOOLEAN,
     reciprocal : BOOLEAN, comparison : {""}, quantity : {NoQuantity}]

Construct(args) ==
    PredicateInit(args.content, args.truth, args.reciprocal, args.comparison,
                  args.quantity)

\* every Predicate the constructor returns for those arguments
Predicates ==
    {Construct(args).value : args \in {a \in PredicateArgs : Construct(a).error = ""}}

-----------------------------------------------------------------------------
(* Idle values of the variables an operation family does not use *)

IdleArgs ==
    [content |-> "", truth |-> TRUE, reciprocal |-> FALSE, comparison |-> "",
     quantity |-> NoQuantity]
IdleResults ==
    [eq |-> FALSE, implies |-> FALSE, implied |-> FALSE,
     contradicts |-> "False", contradicted |-> "False"]

RegisterIdle == regSelf = <<>> /\ incoming = <<>> /\ merged = NoRegister
PredicateIdle ==
    /\ pargs = IdleArgs /\ built = Raised("") /\ p = NoPredicate
    /\ q = NoPredicate /\ pres = IdleResults
IdleFactorResults ==
    [means_self |-> FALSE, means |-> FALSE, implies |-> FALSE,
     implied |-> FALSE, contradicts |-> FALSE, implies_evolved |-> FALSE,
     ordered |-> [self |-> <<>>, other |-> <<>>, operation |-> "means",
                  context |-> <<>>, registers |-> <<>>]]
FactorIdle ==
    /\ x = NoneF /\ y = NoneF /\ starting = <<>>
    /\ fres = IdleFactorResults
    /\ renaming = <<>>
    /\ renamed = "False"
IdleRule == Rule(<<>>, <<>>, FALSE, FALSE)
IdleYielded ==
    [all_to_some |-> <<>>, all_to_all |-> <<>>, plain |-> <<>>,
     self_to_other |-> Yields(<<>>), other_to_self |-> Yields(<<>>),
     back_self_to_other |-> Yields(<<>>),
     back_other_to_self |-> Yields(<<>>)]
IdleRuleResults ==
    [explanations |-> <<>>, implies |-> FALSE, contradicts |-> "False",
     contradicted |-> "False",
     sum |-> [self |-> IdleRule, other |-> IdleRule, found |-> <<>>,
              result |-> Returned(<<>>)]]
RuleIdle ==
    /\ rself = IdleRule /\ rother = IdleRule /\ yielded = IdleYielded
    /\ rres = IdleRuleResults

\* the values of the Holding variables while another family is exercised
IdleHolding == Holding(IdleRule, TRUE, TRUE, FALSE, FALSE)
IdleHoldingYielded ==
    [forward |-> <<>>, backward |-> <<>>,
     all_to_some |-> <<>>, all_to_all |-> <<>>, plain |-> <<>>,
     self_to_other |-> Yields(<<>>), other_to_self |-> Yields(<<>>)]
IdleHoldingResults ==
    [implies |-> "False", implied |-> "False", contradicts |-> "False",
     means |-> "False"]
\* the values of the variables of the comparisons with other kinds of object
IdleTested == [operation |-> "implies", self |-> NoneF, other |-> NoneF]
TypeIdle ==
    /\ tested = IdleTested
    /\ outcome = "True"
IdleCall == [operation |-> "__post_init__", count |-> 0, error |-> "",
             before |-> <<>>, returned |-> <<>>]
OpinionIdle ==
    /\ opinion = NewOpinion
    /\ posited = <<>>
    /\ called = IdleCall

IdleFlags == [rule_valid |-> TRUE, decided |-> TRUE, exclusive |-> FALSE]
HoldingIdle ==
    /\ hself = IdleHolding
    /\ hother = IdleHolding
    /\ hyielded = IdleHoldingYielded
    /\ hres = IdleHoldingResults
    /\ hargs = IdleFlags
    /\ hbuilt = Returned(<<>>)
    /\ hderived = Returned(<<>>)

-----------------------------------------------------------------------------
(* ContextRegister.merged_with applied to a drawn pair of registers *)

InitRegister ==
    /\ pc = "start"
    /\ regSelf \in {reg \in Registers : OneToOne(reg)}
    /\ incoming \in Registers
    /\ merged = NoRegister
    /\ PredicateIdle
    /\ FactorIdle
    /\ RuleIdle
    /\ HoldingIdle
    /\ TypeIdle
    /\ OpinionIdle

MergedWith ==
    /\ pc = "start"
    /\ merged' = merged_with(regSelf, incoming)
    /\ pc' = "merged"
    /\ UNCHANGED <<regSelf, incoming, predicateVars, factorVars, ruleVars,
                   holdingVars,
                   typeVars, opinionVars>>

NextRegister == MergedWith

SpecRegister == InitRegister /\ [][NextRegister]_vars

-----------------------------------------------------------------------------
(* Predicate construction, and comparison of two constructed Predicates *)

InitPredicate ==
    /\ pc = "start"
    /\ RegisterIdle
    /\ FactorIdle
    /\ RuleIdle
    /\ HoldingIdle
    /\ TypeIdle
    /\ OpinionIdle
    /\ built = Raised("")
    /\ pres = IdleResults
    /\ \/ pargs \in PredicateArgs /\ p = NoPredicate /\ q = NoPredicate
       \/ pargs = IdleArgs /\ p \in Predicates /\ q \in Predicates

NewPredicate ==
    /\ pc = "start"
    /\ pargs # IdleArgs
    /\ built' = Construct(pargs)
    /\ pc' = "built"
    /\ UNCHANGED <<registerVars, pargs, p, q, pres, factorVars, ruleVars,
                   holdingVars,
                   typeVars, opinionVars>>

ComparePredicates ==
    /\ pc = "start"
    /\ pargs = IdleArgs
    /\ pres' = [eq |-> PredicateEq(p, q),
                implies |-> PredicateGt(p, q),
                implied |-> PredicateGt(q, p),
                contradicts |-> PredicateContradicts(p, q),
                contradicted |-> PredicateContradicts(q, p)]
    /\ pc' = "compared"
    /\ UNCHANGED <<registerVars, pargs, built, p, q, factorVars, ruleVars,
                   holdingVars,
                   typeVars, opinionVars>>

NextPredicate == NewPredicate \/ ComparePredicates

SpecPredicate == InitPredicate /\ [][NextPredicate]_vars

-----------------------------------------------------------------------------
(* Drawn inputs for the Factor comparisons *)

\* the Predicate of a Fact: a clause without quantity
Clause(content, truth, reciprocal) ==
    Construct([content |-> content, truth |-> truth,
               reciprocal |-> reciprocal, comparison |-> "",
               quantity |-> NoQuantity]).value

Standards == {"", "preponderance of evidence", "beyond reasonable doubt"}

Pleadings ==
    {Pleading(NoneF, name, absent, generic) :
        name \in {"a", "b"}, absent \in BOOLEAN, generic \in BOOLEAN}

ZeroSlotFacts ==
    {Fact(Clause("it rained", truth, FALSE), <<>>, "", standard, absent,
          generic) :
        truth \in BOOLEAN, standard \in Standards, absent \in BOOLEAN,
        generic \in BOOLEAN}

\* the Factors placed in the slots of other Factors
SlotPleadings ==
    {Pleading(NoneF, "a", FALSE, TRUE), Pleading(NoneF, "b", FALSE, TRUE),
     Pleading(NoneF, "a", FALSE, FALSE)}
SlotFacts ==
    {Fact(Clause("it rained", TRUE, FALSE), <<>>, "", "", FALSE, generic) :
        generic \in BOOLEAN}

OneSlotFacts ==
    {Fact(Clause("{} was filed", truth, FALSE), <<f>>, "", "", absent, FALSE) :
        truth \in BOOLEAN, absent \in BOOLEAN,
        f \in SlotPleadings \cup SlotFacts}

ReciprocalFacts ==
    {Fact(Clause("{} met {}", TRUE, TRUE), <<f, g>>, "", "", absent, FALSE) :
        absent \in BOOLEAN,
        f \in {Pleading(NoneF, "a", FALSE, TRUE)},
        g \in {Pleading(NoneF, "b", FALSE, TRUE),
               Pleading(NoneF, "a", FALSE, FALSE)}}
        \cup
    {Fact(Clause("{} met {}", TRUE, TRUE),
          <<Pleading(NoneF, "b", FALSE, TRUE),
            Pleading(NoneF, "a", FALSE, TRUE)>>, "", "", FALSE, FALSE)}

Allegations ==
    {Allegation(statement, pleading, "", FALSE, generic) :
        generic \in BOOLEAN,
        statement \in {NoneF,
                       Fact(Clause("it rained", TRUE, FALSE), <<>>, "", "",
                            FALSE, FALSE),
                       Fact(Clause("{} was filed", TRUE, FALSE),
                            <<Pleading(NoneF, "a", FALSE, TRUE)>>, "", "",
                            FALSE, FALSE)},
        pleading \in {NoneF, Pleading(NoneF, "a", FALSE, TRUE),
                      Pleading(NoneF, "a", FALSE, FALSE)}}

Factors ==
    Pleadings \cup ZeroSlotFacts \cup OneSlotFacts \cup ReciprocalFacts
        \cup Allegations

\* the empty register, and every register of at most MaxContext entries
\* from generic factors of left to generic factors of left or right
StartingContexts(left, right) ==
    {reg \in PairSeqs(Range(generic_factors(left)),
                      Range(generic_factors(left))
                          \cup Range(generic_factors(right)),
                      MaxContext) : OneToOne(reg)}

-----------------------------------------------------------------------------
(* Comparison of two constructed Factors *)

\* names that no drawn Factor has
FreshNames == {"y", "z"}

\* the one-to-one renamings of all generic Factors of f, each replaced by a
\* Factor that differs from it in its name, which is fresh
Renamings(f) ==
    LET generics == generic_factors(f)
    IN  {[i \in DOMAIN generics |->
             <<generics[i], [generics[i] EXCEPT !.name = names[i]]>>] :
            names \in {n \in [DOMAIN generics -> FreshNames] :
                          \A i, j \in DOMAIN generics :
                              n[i] = n[j] => i = j}}

InitFactor ==
    /\ pc = "start"
    /\ RegisterIdle
    /\ PredicateIdle
    /\ RuleIdle
    /\ HoldingIdle
    /\ TypeIdle
    /\ OpinionIdle
    /\ x \in Factors
    /\ y \in Factors
    /\ starting \in StartingContexts(x, y)
    /\ fres = IdleFactorResults
    /\ renaming = <<>>
    /\ renamed = "False"

CompareFactors ==
    /\ pc = "start"
    /\ fres' = [means_self |-> means(x, x, <<>>),
                means |-> means(x, y, <<>>),
                implies |-> implies(x, y, <<>>),
                implied |-> implies(y, x, <<>>),
                contradicts |-> contradicts(x, y, starting),
                implies_evolved |-> implies(x, EvolveAbsent(y), starting),
                ordered |-> fres.ordered]
    /\ pc' = "compared"
    /\ UNCHANGED <<registerVars, predicateVars, x, y, starting, renaming,
                   renamed, ruleVars, holdingVars,
                   typeVars, opinionVars>>

\* x.new_context(changes).new_context(changes.reversed()).means(x) for a
\* drawn renaming of the generic Factors of x
NewContext ==
    /\ pc = "start"
    /\ \E changes \in Renamings(x) :
          /\ renaming' = changes
          /\ renamed' = RoundTrip(x, changes)
    /\ pc' = "renamed"
    /\ UNCHANGED <<registerVars, predicateVars, x, y, starting, fres,
                   ruleVars, holdingVars,
                   typeVars, opinionVars>>

NextFactor == CompareFactors \/ NewContext

SpecFactor == InitFactor /\ [][NextFactor]_vars

-----------------------------------------------------------------------------
(* Ordered comparison of two sequences of Factors *)

\* the items of the sequences: None, generic Pleadings, and a Fact with two
\* interchangeable generic context factors
SequenceItems ==
    {NoneF, Pleading(NoneF, "a", FALSE, TRUE),
     Pleading(NoneF, "b", FALSE, TRUE),
     Fact(Clause("{} met {}", TRUE, TRUE),
          <<Pleading(NoneF, "a", FALSE, TRUE),
            Pleading(NoneF, "b", FALSE, TRUE)>>, "", "", FALSE, FALSE)}

FactorSequences ==
    UNION {[1..n -> SequenceItems] : n \in 0..MaxPositions}

\* registers between the generic Pleadings of the items
SequenceContexts ==
    {reg \in PairSeqs({Pleading(NoneF, "a", FALSE, TRUE),
                       Pleading(NoneF, "b", FALSE, TRUE)},
                      {Pleading(NoneF, "a", FALSE, TRUE),
                       Pleading(NoneF, "b", FALSE, TRUE)}, 1) : OneToOne(reg)}

InitSequence ==
    /\ pc = "start"
    /\ RegisterIdle
    /\ PredicateIdle
    /\ FactorIdle
    /\ RuleIdle
    /\ HoldingIdle
    /\ TypeIdle
    /\ OpinionIdle

\* self.ordered_comparison(other, operation, context) for operator.ge and
\* for means
OrderedComparison ==
    /\ pc = "start"
    /\ \E self \in FactorSequences, other \in FactorSequences,
          operation \in {"means", "implies"}, context \in SequenceContexts :
          fres' = [fres EXCEPT
                     !.ordered =
                         [self |-> self, other |-> other,
                          operation |-> operation, context |-> context,
                          registers |->
                              ordered_comparison(self, other, operation,
                                                 context)]]
    /\ pc' = "ordered"
    /\ UNCHANGED <<registerVars, predicateVars, x, y, starting, renaming,
                   renamed, ruleVars, holdingVars,
                   typeVars, opinionVars>>

NextSequence == OrderedComparison

SpecSequence == InitSequence /\ [][NextSequence]_vars

-----------------------------------------------------------------------------
(* Drawn inputs for the Rule comparisons *)

Section1 == Enactment("constitution", {1})
Section2 == Enactment("constitution", {2})
Sections1And2 == Enactment("constitution", {1, 2})
Statute1 == Enactment("statute", {1})

EnactmentLists ==
    {<<>>, <<Section1>>, <<Sections1And2>>, <<Statute1>>,
     <<Section1, Section2>>, <<Section1, Statute1>>}
DespiteLists == {<<>>, <<Section1>>, <<Sections1And2>>}

Rules ==
    {Rule(enactments, enactments_despite, mandatory, universal) :
        enactments \in EnactmentLists, enactments_despite \in DespiteLists,
        mandatory \in BOOLEAN, universal \in BOOLEAN}

\* quantifier flags only, for the comparisons that do not read the Enactments
BareRules ==
    {Rule(<<>>, <<>>, mandatory, universal) :
        mandatory \in BOOLEAN, universal \in BOOLEAN}

\* registers a Procedure comparison may yield
Explanation1 == << <<Pleading(NoneF, "a", FALSE, TRUE),
                     Pleading(NoneF, "b", FALSE, TRUE)>> >>
Explanation2 == << <<Pleading(NoneF, "b", FALSE, TRUE),
                     Pleading(NoneF, "a", FALSE, TRUE)>> >>
Explanations == {<<>>, << <<>> >>, <<Explanation1, Explanation2>>}

\* a comparison given a ContextRegister yields and finishes; one given
\* something else as its context may raise
Generators == {Yields(<<>>), Yields(<<Explanation1>>)}
GeneratorsOfBadContext ==
    Generators \cup {YieldsThenRaises(<<>>), RaisesWhenCalled}

-----------------------------------------------------------------------------
(* Comparison of two constructed Rules *)

InitRule ==
    /\ pc = "start"
    /\ RegisterIdle
    /\ PredicateIdle
    /\ FactorIdle
    /\ HoldingIdle
    /\ TypeIdle
    /\ OpinionIdle
    /\ rres = IdleRuleResults
    /\ \/ /\ rself \in Rules
          /\ rother \in Rules
          /\ yielded \in
               [all_to_some : Explanations, all_to_all : Explanations,
                plain : Explanations, self_to_other : {Yields(<<>>)},
                other_to_self : {Yields(<<>>)},
                back_self_to_other : {Yields(<<>>)},
                back_other_to_self : {Yields(<<>>)}]
       \/ /\ rself \in BareRules
          /\ rother \in BareRules
          /\ yielded \in
               [all_to_some : {<<>>}, all_to_all : {<<>>}, plain : {<<>>},
                self_to_other : Generators,
                other_to_self : GeneratorsOfBadContext,
                back_self_to_other : Generators,
                back_other_to_self : GeneratorsOfBadContext]

\* rself.explain_implication(rother) and rself.implies(rother)
ExplainImplication ==
    /\ pc = "start"
    /\ rres' = [rres EXCEPT
                  !.explanations = explain_implication(rself, rother, yielded),
                  !.implies = RuleImplies(rself, rother, yielded)]
    /\ pc' = "implied"
    /\ UNCHANGED <<registerVars, predicateVars, factorVars, rself, rother,
                   yielded, holdingVars,
                   typeVars, opinionVars>>

\* rself.contradicts(rother) and rother.contradicts(rself)
Contradicts ==
    /\ pc = "start"
    /\ rres' = [rres EXCEPT
                  !.contradicts =
                      RuleContradicts(rself, rother, yielded.self_to_other,
                                      yielded.other_to_self),
                  !.contradicted =
                      RuleContradicts(rother, rself,
                                      yielded.back_self_to_other,
                                      yielded.back_other_to_self)]
    /\ pc' = "contradicted"
    /\ UNCHANGED <<registerVars, predicateVars, factorVars, rself, rother,
                   yielded, holdingVars,
                   typeVars, opinionVars>>

NextRule == ExplainImplication \/ Contradicts

SpecRule == InitRule /\ [][NextRule]_vars

-----------------------------------------------------------------------------
(* Addition of two constructed Rules *)

\* generic Facts of the Procedures that are added
GenericFact(name) ==
    Fact(Clause("it rained", TRUE, FALSE), <<>>, name, "", FALSE, TRUE)

\* the output of the Procedure of rself
FirstOutput ==
    Fact(Clause("it rained", FALSE, FALSE), <<>>, "c", "", FALSE, FALSE)

\* outputs of the Procedure of rother
AddedOutputs == {<<GenericFact("b")>>, <<FirstOutput, GenericFact("d")>>}

\* what the search for contexts in which the Procedure of rself triggers that
\* of rother finds: nothing, the empty register, a register of two Factors
TriggerContexts ==
    {<<>>, << <<>> >>, << << <<GenericFact("a"), GenericFact("b")>> >> >>}

\* rself + rother, over Procedures with inputs and outputs
Add ==
    /\ pc = "start"
    /\ \E outputs \in AddedOutputs, found \in TriggerContexts :
          LET self == [rself EXCEPT !.inputs = <<GenericFact("a")>>,
                                    !.outputs = <<FirstOutput>>]
              other == [rother EXCEPT !.inputs = <<GenericFact("b")>>,
                                      !.outputs = outputs]
          IN  rres' = [rres EXCEPT
                         !.sum = [self |-> self, other |-> other,
                                  found |-> found,
                                  result |-> RuleAdd(self, other, found)]]
    /\ pc' = "added"
    /\ UNCHANGED <<registerVars, predicateVars, factorVars, rself, rother,
                   yielded, holdingVars,
                   typeVars, opinionVars>>

InitAdd ==
    /\ pc = "start"
    /\ RegisterIdle
    /\ PredicateIdle
    /\ FactorIdle
    /\ HoldingIdle
    /\ TypeIdle
    /\ OpinionIdle
    /\ rres = IdleRuleResults
    /\ rself \in Rules
    /\ rother \in Rules
    /\ yielded = IdleYielded

NextAdd == Add

SpecAdd == InitAdd /\ [][NextAdd]_vars

-----------------------------------------------------------------------------
(* Drawn inputs for the Holding comparisons *)

\* Rules with every combination of the MUST/MAY, ALL/SOME and generic flags
FlaggedRules ==
    {[Rule(<<>>, <<>>, mandatory, universal) EXCEPT !.generic = generic] :
        mandatory \in BOOLEAN, universal \in BOOLEAN, generic \in BOOLEAN}

\* Holdings that are not exclusive
Holdings ==
    {Holding(rule, rule_valid, decided, FALSE, FALSE) :
        rule \in FlaggedRules, rule_valid \in BOOLEAN, decided \in BOOLEAN}

\* what the comparisons of the Procedures of the two Rules yield
ConcreteRegisters == {<<>>, <<Explanation1>>}

-----------------------------------------------------------------------------
(* Comparison of two constructed Holdings *)

InitHolding ==
    /\ pc = "start"
    /\ RegisterIdle
    /\ PredicateIdle
    /\ FactorIdle
    /\ RuleIdle
    /\ TypeIdle
    /\ OpinionIdle
    /\ hres = IdleHoldingResults
    /\ hargs = IdleFlags
    /\ hbuilt = Returned(<<>>)
    /\ hderived = Returned(<<>>)
    /\ hself \in Holdings
    /\ hother \in Holdings
    /\ hyielded \in
         [forward : ConcreteRegisters, backward : ConcreteRegisters,
          all_to_some : ConcreteRegisters, all_to_all : ConcreteRegisters,
          plain : ConcreteRegisters, self_to_other : Generators,
          other_to_self : Generators]
    /\ hself.rule = hother.rule => hyielded.forward = hyielded.backward

\* hself.implies(hother), hother.implies(hself), hself.contradicts(hother)
\* and hself.means(hother)
CompareHoldings ==
    /\ pc = "start"
    /\ hres' = [implies |-> HoldingImplies(hself, hother, <<>>),
                implied |-> HoldingImplies(hother, hself, <<>>),
                contradicts |-> HoldingContradicts(hself, hother, <<>>),
                means |-> HoldingMeans(hself, hother, <<>>)]
    /\ pc' = "compared"
    /\ UNCHANGED <<registerVars, predicateVars, factorVars, ruleVars, typeVars, opinionVars,
                   hself,
                   hother, hyielded, hargs, hbuilt, hderived>>

NextHolding == CompareHoldings

SpecHolding == InitHolding /\ [][NextHolding]_vars

-----------------------------------------------------------------------------
(* Implication between groups of Holdings *)

\* decided Holdings of a MAY/SOME Rule, generic or not, valid or not
GroupHoldings ==
    {Holding([Rule(<<>>, <<>>, FALSE, FALSE) EXCEPT !.generic = generic],
             rule_valid, TRUE, FALSE, FALSE) :
        generic \in BOOLEAN, rule_valid \in BOOLEAN}

\* the Holdings that may be needed: those, and one that is undecided
NeededHoldings ==
    GroupHoldings
        \cup {Holding(Rule(<<>>, <<>>, FALSE, FALSE), TRUE, FALSE, FALSE,
                      FALSE)}

HoldingGroups == UNION {[1..n -> GroupHoldings] : n \in 1..MaxGroup}
NeededGroups == UNION {[1..n -> NeededHoldings] : n \in 0..MaxGroup}

InitGroup ==
    /\ pc = "start"
    /\ RegisterIdle
    /\ PredicateIdle
    /\ FactorIdle
    /\ RuleIdle
    /\ HoldingIdle
    /\ TypeIdle
    /\ OpinionIdle

\* list(group.explanations_implication(needed)) for two HoldingGroups
GroupImplication ==
    /\ pc = "start"
    /\ \E group \in HoldingGroups, needed \in NeededGroups :
          /\ hbuilt' = Returned(<<group, needed>>)
          /\ hderived' = GroupExplanationsImplication(group, needed)
    /\ pc' = "searched"
    /\ UNCHANGED <<registerVars, predicateVars, factorVars, ruleVars, typeVars, opinionVars,
                   hself,
                   hother, hyielded, hres, hargs>>

NextGroup == GroupImplication

SpecGroup == InitGroup /\ [][NextGroup]_vars

-----------------------------------------------------------------------------
(* Construction of a Holding, and the Holdings derived from it *)

\* Factors for the inputs, outputs and despite of a Procedure
InputFactors ==
    {Fact(Clause("it rained", TRUE, FALSE), <<>>, "a", "", FALSE, FALSE),
     Pleading(NoneF, "b", TRUE, TRUE)}
OutputFactor ==
    Fact(Clause("it rained", FALSE, FALSE), <<>>, "c", "", FALSE, FALSE)
OtherOutputFactor == Pleading(NoneF, "d", FALSE, TRUE)

InputLists ==
    UNION {[1..n -> InputFactors] : n \in 0..MaxInputs}
OutputLists ==
    {<<OutputFactor>>, <<EvolveAbsent(OutputFactor)>>,
     <<OutputFactor, OtherOutputFactor>>}
DespiteFactorLists == {<<>>, <<OtherOutputFactor>>}

\* Rules over a Procedure with outputs, inputs and despite
ProcedureRules ==
    {[Rule(<<>>, <<>>, mandatory, universal) EXCEPT
         !.outputs = outputs, !.inputs = inputs, !.despite = despite] :
        mandatory \in BOOLEAN, universal \in BOOLEAN,
        outputs \in OutputLists, inputs \in InputLists,
        despite \in DespiteFactorLists}

\* replacements of the generic Factors of the Procedures
Replacements ==
    {<<>>,
     << <<Pleading(NoneF, "b", TRUE, TRUE),
          Pleading(NoneF, "y", TRUE, TRUE)>> >>,
     << <<Pleading(NoneF, "b", TRUE, TRUE),
          Pleading(NoneF, "y", TRUE, TRUE)>>,
        <<OtherOutputFactor, Pleading(NoneF, "z", FALSE, TRUE)>> >>}

InitConstruction ==
    /\ pc = "start"
    /\ RegisterIdle
    /\ PredicateIdle
    /\ FactorIdle
    /\ RuleIdle
    /\ HoldingIdle
    /\ TypeIdle
    /\ OpinionIdle

\* Holding(rule, rule_valid, decided, exclusive, generic)
NewHolding ==
    /\ pc = "start"
    /\ \E rule \in ProcedureRules, rule_valid \in BOOLEAN,
          decided \in BOOLEAN, exclusive \in BOOLEAN, generic \in BOOLEAN :
          /\ hargs' = [rule_valid |-> rule_valid, decided |-> decided,
                       exclusive |-> exclusive]
          /\ hbuilt' =
                HoldingInit(rule, rule_valid, decided, exclusive, generic)
    /\ pc' = "built"
    /\ UNCHANGED <<registerVars, predicateVars, factorVars, ruleVars, typeVars, opinionVars,
                   hself,
                   hother, hyielded, hres, hderived>>

\* hbuilt.nonexclusive_holdings
NonexclusiveHoldings ==
    /\ pc = "built"
    /\ hbuilt.error = ""
    /\ hderived' = nonexclusive_holdings(hbuilt.value[1])
    /\ pc' = "expanded"
    /\ UNCHANGED <<registerVars, predicateVars, factorVars, ruleVars, typeVars, opinionVars,
                   hself,
                   hother, hyielded, hres, hargs, hbuilt>>

\* hbuilt.evolve({"rule_valid": ..., "decided": ..., "exclusive": ...})
Evolve ==
    /\ pc = "built"
    /\ hbuilt.error = ""
    /\ \E rule_valid \in BOOLEAN, decided \in BOOLEAN, exclusive \in BOOLEAN :
          /\ hargs' = [rule_valid |-> rule_valid, decided |-> decided,
                       exclusive |-> exclusive]
          /\ hderived' =
                EvolveHolding(hbuilt.value[1], rule_valid, decided, exclusive)
    /\ pc' = "evolved"
    /\ UNCHANGED <<registerVars, predicateVars, factorVars, ruleVars, typeVars, opinionVars,
                   hself,
                   hother, hyielded, hres, hbuilt>>

\* hbuilt.negated()
Negated ==
    /\ pc = "built"
    /\ hbuilt.error = ""
    /\ hderived' = Returned(<<negated(hbuilt.value[1])>>)
    /\ pc' = "negated"
    /\ UNCHANGED <<registerVars, predicateVars, factorVars, ruleVars, typeVars, opinionVars,
                   hself,
                   hother, hyielded, hres, hargs, hbuilt>>

\* hbuilt.new_context(changes) for a drawn replacement of a Factor
NewContextOfHolding ==
    /\ pc = "built"
    /\ hbuilt.error = ""
    /\ \E changes \in Replacements :
          hderived' = HoldingNewContext(hbuilt.value[1], changes)
    /\ pc' = "renamed"
    /\ UNCHANGED <<registerVars, predicateVars, factorVars, ruleVars, typeVars, opinionVars,
                   hself,
                   hother, hyielded, hres, hargs, hbuilt>>

\* holding.generic_factors, for hbuilt with its Rule generic or not
GenericFactors ==
    /\ pc = "built"
    /\ hbuilt.error = ""
    /\ \E generic \in BOOLEAN :
          LET holding == [hbuilt.value[1] EXCEPT !.rule.generic = generic]
          IN  hderived' =
                  Returned(<<holding, HoldingGenericFactors(holding)>>)
    /\ pc' = "generics"
    /\ UNCHANGED <<registerVars, predicateVars, factorVars, ruleVars, typeVars, opinionVars,
                   hself,
                   hother, hyielded, hres, hargs, hbuilt>>

NextConstruction ==
    NewHolding \/ NonexclusiveHoldings \/ Evolve \/ Negated
        \/ NewContextOfHolding

SpecConstruction == InitConstruction /\ [][NextConstruction]_vars

\* construction of a Holding and its generic_factors
NextGenerics == NewHolding \/ GenericFactors

SpecGenerics == InitConstruction /\ [][NextGenerics]_vars

-----------------------------------------------------------------------------
(* Comparison of a Factor, Rule or Holding with any kind of object *)

Operations == {"implies", "contradicts"}
Subjects == Pleadings \cup SlotFacts \cup FlaggedRules \cup Holdings
Objects == Subjects \cup {NoneF, NotAFactor}

InitOther ==
    /\ pc = "start"
    /\ RegisterIdle
    /\ PredicateIdle
    /\ FactorIdle
    /\ RuleIdle
    /\ HoldingIdle
    /\ TypeIdle
    /\ OpinionIdle

\* self.implies(other) and self.contradicts(other)
CompareWithOther ==
    /\ pc = "start"
    /\ \E operation \in Operations, self \in Subjects, other \in Objects :
          /\ tested' = [operation |-> operation, self |-> self,
                        other |-> other]
          /\ outcome' = TestOther(operation, self, other)
    /\ pc' = "tested"
    /\ UNCHANGED <<registerVars, predicateVars, factorVars, ruleVars,
                   holdingVars, opinionVars>>

NextOther == CompareWithOther

SpecOther == InitOther /\ [][NextOther]_vars

-----------------------------------------------------------------------------
(* Calls on an Opinion *)

\* a Rule over a Procedure with the given output
OpinionRule(output) ==
    [Rule(<<>>, <<>>, FALSE, FALSE) EXCEPT !.outputs = <<output>>]

\* the Holdings handed to the Opinion: a decided Holding over a generic Fact
\* and an undecided Holding over a Fact that is not generic
OpinionHoldings ==
    {Holding(OpinionRule(GenericFact("a")), TRUE, TRUE, FALSE, FALSE),
     Holding(OpinionRule(FirstOutput), TRUE, FALSE, FALSE, FALSE)}

\* what posit_holding is called with: a Holding, the Rule of the first
\* Holding, or None
PositArguments ==
    OpinionHoldings \cup {OpinionRule(GenericFact("a")), NoneF}

\* lists of at most two of them
ArgumentLists == UNION {[1..n -> PositArguments] : n \in 0..2}

\* text_links of one Holding: None, or one passage
TextLinks == {<<>>, <<"s1">>}

\* text_links of a list of Holdings: None, or passages for the first two
TextLinkLists == {<<>>, <<<<"s1">>, <<"s2">> >>}

\* factor_text_links: None, or passages for the Factor named a
FactorTextLinks == {<<>>, << <<"a", <<"s3">> >> >>}

\* context: None, or one Factor to replace the first generic Factor
OpinionContexts == {<<>>, <<GenericFact("b")>>}

InitOpinion ==
    /\ pc = "start"
    /\ RegisterIdle
    /\ PredicateIdle
    /\ FactorIdle
    /\ RuleIdle
    /\ HoldingIdle
    /\ TypeIdle
    /\ opinion = NewOpinion
    /\ posited = <<>>
    /\ called = IdleCall

\* what a call leaves: the Opinion, the Holdings posited and the record of
\* the call
AfterCall(operation, result) ==
    /\ opinion' = result.opinion
    /\ posited' = IF operation = "clear_holdings" THEN <<>>
                  ELSE posited \o result.recorded
    /\ called' = [operation |-> operation, count |-> called.count + 1,
                  error |-> result.error,
                  before |-> OpinionHoldingsOf(opinion),
                  returned |-> result.returned]

\* opinion.posit_holding(holding, text_links, factor_text_links, context)
PositOne ==
    /\ called.count < MaxCalls
    /\ \E holding \in PositArguments, text_links \in TextLinks,
          factor_text_links \in FactorTextLinks, context \in OpinionContexts :
          AfterCall("posit_holding",
                    PositHolding(opinion, holding, text_links,
                                 factor_text_links, context))
    /\ pc' = "called"
    /\ UNCHANGED <<registerVars, predicateVars, factorVars, ruleVars,
                   holdingVars, typeVars>>

\* opinion.posit_holdings(holdings, text_links, factor_text_links, context)
PositSeveral ==
    /\ called.count < MaxCalls
    /\ \E holdings \in ArgumentLists, text_links \in TextLinkLists,
          factor_text_links \in FactorTextLinks, context \in OpinionContexts :
          AfterCall("posit_holdings",
                    PositHoldings(opinion, holdings, text_links,
                                  factor_text_links, context))
    /\ pc' = "called"
    /\ UNCHANGED <<registerVars, predicateVars, factorVars, ruleVars,
                   holdingVars, typeVars>>

\* opinion.clear_holdings()
Clear ==
    /\ called.count < MaxCalls
    /\ AfterCall("clear_holdings", ClearHoldings(opinion))
    /\ pc' = "called"
    /\ UNCHANGED <<registerVars, predicateVars, factorVars, ruleVars,
                   holdingVars, typeVars>>

\* opinion.get_anchors(holding, include_factors)
Anchors ==
    /\ called.count < MaxCalls
    /\ \E holding \in OpinionHoldings, include_factors \in BOOLEAN :
          AfterCall("get_anchors",
                    GetAnchors(opinion, holding, include_factors))
    /\ pc' = "called"
    /\ UNCHANGED <<registerVars, predicateVars, factorVars, ruleVars,
                   holdingVars, typeVars>>

NextOpinion == PositOne \/ PositSeveral \/ Clear \/ Anchors

SpecOpinion == InitOpinion /\ [][NextOpinion]_vars

-----------------------------------------------------------------------------
(* Claims about ContextRegister.merged_with *)

Entries(a, b) == Items(a) \cup Items(b)

\* combining a and b maps a key to two values or two keys to one value
WouldConflict(a, b) ==
    \E e1, e2 \in Entries(a, b) :
        \/ e1[1] = e2[1] /\ e1[2] # e2[2]
        \/ e1[1] # e2[1] /\ e1[2] = e2[2]

\* C1: for a one-to-one register a and any incoming mapping b,
\* a.merged_with(b) is None exactly when combining them would map some key to
\* two different values or two different keys to the same value; otherwise
\* the result is one-to-one and contains every entry of a and of b.
C1_MergedExactlyWhenCompatible ==
    pc = "merged" =>
        /\ merged.none <=> WouldConflict(regSelf, incoming)
        /\ ~merged.none =>
              /\ OneToOne(merged.reg)
              /\ Entries(regSelf, incoming) \subseteq Items(merged.reg)

-----------------------------------------------------------------------------
(* Claims about Predicate comparison and construction *)

\* magnitudes at which comparisons are sampled: every drawn quantity in base
\* units, doubled, with the points between and beyond them
Grid == -1 .. (2 * 3 * MaxMagnitude + 1)

\* magnitude m/2 satisfies the predicate's comparison against its quantity
Satisfies(predicate, m) ==
    LET t == 2 * Base(predicate.quantity) IN
    CASE predicate.comparison = ">" -> m > t
      [] predicate.comparison = ">=" -> m >= t
      [] predicate.comparison = "=" -> m = t
      [] predicate.comparison = "<>" -> m # t
      [] predicate.comparison = "<" -> m < t
      [] predicate.comparison = "<=" -> m <= t

HasQuantity(predicate) == predicate.quantity.kind # "none"

\* both carry a comparison with plain numbers or magnitudes of one dimension
Comparable(self, other) ==
    /\ self.comparison # "" /\ other.comparison # ""
    /\ HasQuantity(self) /\ HasQuantity(other)
    /\ IsQuantity(self.quantity) = IsQuantity(other.quantity)
    /\ IsQuantity(self.quantity) =>
          Dimensionality(self.quantity.unit)
              = Dimensionality(other.quantity.unit)

SameClause(self, other) ==
    self.content = other.content /\ self.reciprocal = other.reciprocal

\* C5: with the same content and reciprocal flag and comparable quantities,
\* p implies q exactly when every magnitude satisfying p's comparison also
\* satisfies q's; a Predicate without a quantity implies another only when
\* the two are equal.
C5_ImpliesIsIntervalContainment ==
    (pc = "compared" /\ SameClause(p, q)) =>
        /\ Comparable(p, q) =>
              (pres.implies <=>
                  \A m \in Grid : Satisfies(p, m) => Satisfies(q, m))
        /\ ~HasQuantity(p) => (pres.implies => pres.eq)

\* C6: with the same content and reciprocal flag and comparable quantities,
\* p.contradicts(q) exactly when no magnitude satisfies both comparisons;
\* without quantities, exactly when the truth values differ.
C6_ContradictsIsDisjointness ==
    (pc = "compared" /\ SameClause(p, q)) =>
        /\ Comparable(p, q) =>
              (pres.contradicts = "True" <=>
                  ~ \E m \in Grid : Satisfies(p, m) /\ Satisfies(q, m))
        /\ (~HasQuantity(p) /\ ~HasQuantity(q)) =>
              (pres.contradicts = "True" <=> p.truth # q.truth)

\* the logical complement of a comparison operator
Complement(comparison) ==
    CASE comparison = ">" -> "<="
      [] comparison = ">=" -> "<"
      [] comparison = "=" -> "<>"
      [] comparison = "<>" -> "="
      [] comparison = "<" -> ">="
      [] comparison = "<=" -> ">"

\* C7: for each of the six comparison operators and every quantity,
\* constructing a Predicate with truth=False succeeds and yields truth True
\* with the complementary operator; every constructed Predicate that has a
\* comparison has truth True.
C7_FalseComparisonBecomesComplement ==
    pc = "built" =>
        /\ (pargs.comparison \in Comparisons /\ ~pargs.truth) =>
              /\ built.error = ""
              /\ built.value.truth
              /\ built.value.comparison = Complement(pargs.comparison)
        /\ (built.error = "" /\ built.value.comparison # "") =>
              built.value.truth

\* quantities of different dimensions, or a unit on one side only
Incompatible(self, other) ==
    \/ /\ IsQuantity(self.quantity) /\ IsQuantity(other.quantity)
       /\ Dimensionality(self.quantity.unit)
              # Dimensionality(other.quantity.unit)
    \/ IsQuantity(self.quantity) # IsQuantity(other.quantity)

-----------------------------------------------------------------------------
(* Claims about the comparisons of Factors *)

\* C2: for any two Factors x and y and any starting context, if x is not
\* absent then x.implies(y with its absent flag flipped, context) returns the
\* same truth value as x.contradicts(y, context).
C2_AbsenceDuality ==
    pc = "compared" /\ ~x.absent =>
        (fres.implies_evolved <=> fres.contradicts)

\* C2 as amended: the same equality for every starting context that has no
\* entry for x itself.
C2_AbsenceDualityWithoutEntry ==
    pc = "compared" /\ ~x.absent /\ IsNone(Get(starting, x)) =>
        (fres.implies_evolved <=> fres.contradicts)

\* a present x compared under a nonempty context without an entry for x to an
\* absent y that it contradicts
C2_Witness ==
    /\ pc = "compared"
    /\ ~x.absent /\ y.absent
    /\ starting # <<>> /\ IsNone(Get(starting, x))
    /\ fres.contradicts /\ fres.implies_evolved

\* C3: x.means(x) is true for every constructible Factor x, whatever its
\* subclass, its generic and absent flags and its context factors, Factors
\* that nest other Factors and Facts of zero context slots included.
C3_MeansIsReflexive ==
    pc = "compared" => fres.means_self

\* C4: whenever x.implies(y) and y.implies(x) are both true, x.means(y) is
\* true.
C4_MutualImplicationIsSameMeaning ==
    pc = "compared" /\ fres.implies /\ fres.implied => fres.means

-----------------------------------------------------------------------------
(* Claims about the comparisons of Rules *)

\* (a) of C9, over the Enactments as sets
EnactmentSupportIsSubset(self, other) ==
    /\ \A e \in Range(self.enactments) :
          \E other_e \in Range(other.enactments) : EnactmentGe(other_e, e)
    /\ \A other_d \in Range(other.enactments_despite) :
          \E e \in Range(self.enactments) \cup Range(self.enactments_despite) :
              EnactmentGe(e, other_d)

\* the Procedure comparison the quantifiers of self and other select
SelectedComparison(self, other) ==
    CASE self.universal /\ ~other.universal -> yielded.all_to_some
      [] self.universal /\ other.universal -> yielded.all_to_all
      [] ~self.universal /\ ~other.universal -> yielded.plain

\* C9: Rule self implies Rule other only if (a) every enactment of self is
\* implied by some enactment of other and every despite-enactment of other by
\* some enactment or despite-enactment of self, (b) self is mandatory if
\* other is and (c) self is universal if other is; when all three hold, the
\* explanations are exactly those of the Procedure comparison the quantifiers
\* select. So MAY never implies MUST and SOME never implies ALL.
C9_RuleImplicationGuards ==
    pc = "implied" =>
        LET a == EnactmentSupportIsSubset(rself, rother)
            b == rother.mandatory => rself.mandatory
            c == rother.universal => rself.universal
        IN  /\ rres.implies => a /\ b /\ c
            /\ rres.explanations # <<>> => a /\ b /\ c
            /\ a /\ b /\ c =>
                  rres.explanations = SelectedComparison(rself, rother)

\* a MUST/ALL Rule citing an Enactment implies a MAY/SOME Rule that applies
\* despite an Enactment
C9_Witness ==
    /\ pc = "implied"
    /\ rres.implies
    /\ rself.mandatory /\ ~rother.mandatory
    /\ rself.universal /\ ~rother.universal
    /\ rself.enactments # <<>> /\ rother.enactments_despite # <<>>

\* C10: Rule.contradicts is false, in both directions and whatever the
\* Procedures yield for the context, whenever neither Rule is universal and
\* whenever neither Rule is mandatory.
C10_SomeNeverContradictsSome ==
    /\ pc = "contradicted"
    /\ \/ ~rself.universal /\ ~rother.universal
       \/ ~rself.mandatory /\ ~rother.mandatory
    => /\ rres.contradicts = "False"
       /\ rres.contradicted = "False"

\* two SOME Rules, one of them MUST, whose Procedures do yield a register
C10_Witness ==
    /\ pc = "contradicted"
    /\ ~rself.universal /\ ~rother.universal
    /\ rself.mandatory
    /\ yielded.self_to_other.registers # <<>>
    /\ yielded.back_self_to_other.registers # <<>>
    /\ rres.contradicts = "False" /\ rres.contradicted = "False"

-----------------------------------------------------------------------------
(* Claims about the comparisons of Holdings *)

\* Rule.implies and Rule.contradicts of the Rules of the two Holdings
RuleImplication ==
    IF RuleImplies(hself.rule, hother.rule, hyielded) THEN "True" ELSE "False"
RuleContradiction ==
    RuleContradicts(hself.rule, hother.rule, hyielded.self_to_other,
                    hyielded.other_to_self)

\* C11: of two decided Holdings that are not exclusive, self implies other
\* exactly when self.rule implies other.rule if both have the same
\* rule_valid, and exactly when self.rule contradicts other.rule if their
\* rule_valid differ, implication and contradiction being those of Rule.
C11_DecidedHoldingsFollowTheirRules ==
    (/\ pc = "compared"
     /\ hself.decided
     /\ hother.decided)
    => hres.implies = IF hself.rule_valid = hother.rule_valid
                      THEN RuleImplication
                      ELSE RuleContradiction

\* C12: of two Holdings that are not exclusive, if exactly one is decided
\* neither implies the other, and if both are undecided self implies other
\* exactly when self means other or self means other with its rule_valid
\* negated.
C12_UndecidedHoldings ==
    (/\ pc = "compared"
     /\ ~(hself.decided /\ hother.decided))
    => IF hself.decided # hother.decided
       THEN hres.implies = "False" /\ hres.implied = "False"
       ELSE hres.implies =
                IF \/ HoldingMeans(hself, hother, <<>>) = "True"
                   \/ HoldingMeans(hself, negated(hother), <<>>) = "True"
                THEN "True" ELSE "False"

\* the Holding with decided set
TreatedAsDecided(holding) == [holding EXCEPT !.decided = TRUE]

\* whether self implies other or the negation of other
ImpliesEitherWay(self, other) ==
    IF \/ HoldingImplies(self, other, <<>>) = "True"
       \/ HoldingImplies(self, negated(other), <<>>) = "True"
    THEN "True" ELSE "False"

-----------------------------------------------------------------------------
(* Claims about exclusive Holdings *)

\* the constructed Holding is exclusive with at least one input and a single
\* output that is not absent
ExclusiveWithOneOutput ==
    /\ hbuilt.error = ""
    /\ hbuilt.value[1].exclusive
    /\ Len(hbuilt.value[1].rule.inputs) >= 1
    /\ Len(hbuilt.value[1].rule.outputs) = 1
    /\ ~hbuilt.value[1].rule.outputs[1].absent

\* C14: for an exclusive Holding with inputs I1..In, n >= 1, and a single
\* output C that is not absent, nonexclusive_holdings is exactly n + 1
\* Holdings, none exclusive: the original with exclusive cleared and then, for
\* each Ik in order, a Holding whose Rule has Ik with its absent flag flipped
\* as its only input, C marked absent as its only output, and mandatory and
\* universal both negated.
C14_ExclusiveExpandsToContrapositives ==
    (pc = "expanded" /\ ExclusiveWithOneOutput)
    => LET original == hbuilt.value[1]
           n == Len(original.rule.inputs)
       IN  /\ hderived.error = ""
           /\ Len(hderived.value) = n + 1
           /\ hderived.value[1] = [original EXCEPT !.exclusive = FALSE]
           /\ \A k \in 1..n :
                LET inferred == hderived.value[k + 1]
                IN  /\ inferred.cls = "Holding"
                    /\ ~inferred.exclusive
                    /\ inferred.rule.inputs =
                         <<[original.rule.inputs[k] EXCEPT
                               !.absent = ~original.rule.inputs[k].absent]>>
                    /\ inferred.rule.outputs =
                         <<[original.rule.outputs[1] EXCEPT !.absent = TRUE]>>
                    /\ inferred.rule.mandatory = ~original.rule.mandatory
                    /\ inferred.rule.universal = ~original.rule.universal

\* an exclusive Holding with two inputs has been expanded
C14_Witness ==
    /\ pc = "expanded"
    /\ ExclusiveWithOneOutput
    /\ Len(hbuilt.value[1].rule.inputs) = 2
    /\ Len(hderived.value) = 3

\* the constructed Holding is exclusive and its Rule has more than one
\* output, or a single output that is absent
ExclusiveWithBadOutputs ==
    /\ hbuilt.error = ""
    /\ hbuilt.value # <<>>
    /\ hbuilt.value[1].exclusive
    /\ \/ Len(hbuilt.value[1].rule.outputs) > 1
       \/ /\ Len(hbuilt.value[1].rule.outputs) = 1
          /\ hbuilt.value[1].rule.outputs[1].absent

\* C16: an exclusive Holding whose Rule has more than one output, or whose
\* single output is absent, is rejected with an error when it is constructed:
\* no such Holding exists after construction, so none fails later when it is
\* expanded.
C16_BadOutputsRejectedAtConstruction == ~ExclusiveWithBadOutputs

-----------------------------------------------------------------------------
(* Claims about Factor.new_context *)

\* C17: for a Factor f and a one-to-one renaming m of its generic Factors
\* whose replacements are not in f, f.new_context(m) taken back through
\* new_context(m.reversed()) means f.
C17_NewContextRoundTrip ==
    pc = "renamed" => renamed = "True"

\* the flags asked for are exclusive together with invalid or undecided
AsksForBadExclusive ==
    hargs.exclusive /\ ~(hargs.rule_valid /\ hargs.decided)

\* C15: every Holding, whether constructed or returned by evolve, negated,
\* new_context or nonexclusive_holdings, is valid and decided if it is
\* exclusive, and constructing or evolving a Holding to flags that break
\* this raises an error.
C15_ExclusiveIsValidAndDecided ==
    /\ \A holding \in Range(hbuilt.value) \cup Range(hderived.value) :
          holding.exclusive => holding.rule_valid /\ holding.decided
    /\ (pc = "built" /\ AsksForBadExclusive)
          => hbuilt.error = "NotImplementedError"
    /\ (pc = "evolved" /\ AsksForBadExclusive)
          => hderived.error = "NotImplementedError"

\* an exclusive Holding has been asked to evolve to undecided, which raised
C15_Witness ==
    /\ pc = "evolved"
    /\ hbuilt.value[1].exclusive
    /\ ~hargs.decided
    /\ hargs.exclusive
    /\ hderived.error = "NotImplementedError"

-----------------------------------------------------------------------------
(* Claims about absent Factors *)

\* the Factor with its absent flag cleared
Present(factor) == [factor EXCEPT !.absent = FALSE]

\* the register with x and y, where they are a key or a value, replaced by
\* their present forms
AsPresent(reg) ==
    [i \in DOMAIN reg |->
        <<IF reg[i][1] \in {x, y} THEN Present(reg[i][1]) ELSE reg[i][1],
          IF reg[i][2] \in {x, y} THEN Present(reg[i][2]) ELSE reg[i][2]>>]

\* C18: for two absent Factors x and y of the same class, x.implies(y) is
\* true exactly when y with its absent flag cleared implies x with its absent
\* flag cleared, and every register yielded for (x, y) is the reversal of a
\* register yielded for the present pair (y, x).
C18_AbsentRegistersOfPresentPair ==
    (/\ pc = "compared"
     /\ x.absent
     /\ y.absent
     /\ x.cls = y.cls)
    => /\ fres.implies = implies(Present(y), Present(x), <<>>)
       /\ \A i \in DOMAIN explanations_implication(x, y, <<>>) :
            \E j \in DOMAIN explanations_implication(Present(y), Present(x),
                                                     <<>>) :
                explanations_implication(x, y, <<>>)[i]
                    = reversed(explanations_implication(
                                   Present(y), Present(x), <<>>)[j])

\* C18 as amended: the same, x and y standing in the registers yielded for
\* (x, y) as they were compared, absent, where the registers of the present
\* pair have their present forms.
C18_AbsentImplicationSwapsOperands ==
    (/\ pc = "compared"
     /\ x.absent
     /\ y.absent
     /\ x.cls = y.cls)
    => /\ fres.implies = implies(Present(y), Present(x), <<>>)
       /\ \A i \in DOMAIN explanations_implication(x, y, <<>>) :
            \E j \in DOMAIN explanations_implication(Present(y), Present(x),
                                                     <<>>) :
                AsPresent(explanations_implication(x, y, <<>>)[i])
                    = reversed(explanations_implication(
                                   Present(y), Present(x), <<>>)[j])

\* two different absent Factors of one class, neither generic, of which the
\* first implies the second through a register that is not empty, while the
\* second does not imply the first
C18_Witness ==
    /\ pc = "compared"
    /\ x.absent
    /\ y.absent
    /\ x.cls = y.cls
    /\ ~x.generic
    /\ ~y.generic
    /\ fres.implies
    /\ ~fres.implied
    /\ \E i \in DOMAIN explanations_implication(x, y, <<>>) :
          explanations_implication(x, y, <<>>)[i] # <<>>

-----------------------------------------------------------------------------
(* Claims about implies and the explanation generators *)

\* C19: implies(other, context) returns true exactly when the implication
\* explanations for (other, context) yield at least one register, an empty
\* register included: Rule.implies agrees with Rule.explain_implication.
C19_RuleImpliesAgreesWithExplanations ==
    pc = "implied" => (rres.implies <=> rres.explanations # <<>>)

-----------------------------------------------------------------------------
(* Claims about comparisons with other kinds of object *)

\* other is a Factor of another kind than self; a Rule and a Holding, which
\* are compared as Holdings, are not counted as different kinds
OfDifferentKind ==
    /\ IsFactor(tested.other)
    /\ tested.other.cls # tested.self.cls
    /\ {tested.self.cls, tested.other.cls} # {"Rule", "Holding"}

\* C20: an implication or contradiction test on a Factor, Rule or Holding
\* raises a type error exactly when other is neither None nor a Factor, and
\* returns false without raising when other is a Factor of a different kind.
C20_TypeErrorOnlyForNonFactors ==
    pc = "tested"
    => /\ outcome = "TypeError"
            <=> ~(tested.other.cls = "None" \/ IsFactor(tested.other))
       /\ OfDifferentKind => outcome = "False"

-----------------------------------------------------------------------------
(* Claims about the same meaning of generic Factors *)

\* x and y are generic Factors of one class with the same absent flag
BothGeneric ==
    /\ x.generic
    /\ y.generic
    /\ x.cls = y.cls
    /\ x.absent = y.absent

\* C21: when self and other are both generic Factors of the same class with
\* the same absent flag, explanations_same_meaning yields exactly one
\* register, the one that maps self to other; when class, absent flag or
\* generic flag differ it yields none.
C21_GenericFactorsMeanTheSameOnce ==
    pc = "compared"
    => /\ BothGeneric
            => explanations_same_meaning(x, y, starting)
                   = << << <<x, y>> >> >>
       /\ (x.cls # y.cls \/ x.absent # y.absent \/ x.generic # y.generic)
            => explanations_same_meaning(x, y, starting) = <<>>

-----------------------------------------------------------------------------
(* Claims about generic_factors *)

\* what C22 gives as the generic_factors of a node with the given generic
\* flag and context_factors
GenericFactorsOfNode(node, context_factors) ==
    IF node.generic THEN <<node>>
    ELSE DictKeys(GenericsFrom(context_factors, 1))

\* C22: at every layer, generic_factors of a generic node is the one-element
\* list of the node, and generic_factors of a non-generic node is the
\* duplicate-free list, in order of first occurrence, of the generic_factors
\* of its non-null context_factors taken in order.
C22_GenericFactorsAtEveryLayer ==
    pc = "generics"
    => /\ HoldingGenericFactors(hderived.value[1])
            = GenericFactorsOfNode(hderived.value[1],
                                   HoldingContextFactors(hderived.value[1]))
       /\ RuleGenericFactors(hderived.value[1].rule)
            = GenericFactorsOfNode(
                  hderived.value[1].rule,
                  ProcedureContextFactors(hderived.value[1].rule))
       /\ \A i \in DOMAIN HoldingContextFactors(hderived.value[1]) :
            LET factor == HoldingContextFactors(hderived.value[1])[i]
            IN  generic_factors(factor)
                    = GenericFactorsOfNode(factor, factor.context_factors)

-----------------------------------------------------------------------------
(* Claims about what new_context leaves as it was *)

\* hbuilt.new_context(changes) has returned a Holding
HoldingInNewContext ==
    /\ pc = "renamed"
    /\ hbuilt.value # <<>>
    /\ hderived.error = ""

\* C23: new_context returns a new node of the same class that differs from
\* the original only in the replaced generic participants; Holding.new_context
\* preserves rule_valid, decided, exclusive and generic, and the flags and
\* enactments of the Rule.
C23_NewContextKeepsTheFlags ==
    HoldingInNewContext
    => /\ hderived.value[1].cls = hbuilt.value[1].cls
       /\ hderived.value[1].rule_valid = hbuilt.value[1].rule_valid
       /\ hderived.value[1].decided = hbuilt.value[1].decided
       /\ hderived.value[1].exclusive = hbuilt.value[1].exclusive
       /\ hderived.value[1].generic = hbuilt.value[1].generic
       /\ hderived.value[1].rule.mandatory = hbuilt.value[1].rule.mandatory
       /\ hderived.value[1].rule.universal = hbuilt.value[1].rule.universal
       /\ hderived.value[1].rule.enactments = hbuilt.value[1].rule.enactments

-----------------------------------------------------------------------------
(* Claims about the addition of Rules *)

\* other needs an Enactment that self does not supply
NeedsMoreEnactments(other, self) ==
    \E i \in DOMAIN other.enactments :
        \A j \in DOMAIN self.enactments :
            ~EnactmentGe(self.enactments[j], other.enactments[i])

\* self applies despite an Enactment that other neither needs nor applies
\* despite
DespiteMoreEnactments(self, other) ==
    \E k \in DOMAIN self.enactments_despite :
        \A e \in Range(other.enactments) \cup Range(other.enactments_despite) :
            ~EnactmentGe(e, self.enactments_despite[k])

\* the flags of the sum are the lesser of the flags of the Rules added
LesserFlags ==
    /\ rres.sum.result.value[1].universal
          = (rres.sum.self.universal /\ rres.sum.other.universal)
    /\ rres.sum.result.value[1].mandatory
          = (rres.sum.self.mandatory /\ rres.sum.other.mandatory)

\* C24: for Rules a and b, a + b is None when both are non-universal, when b
\* needs an enactment that a does not supply, or when a's procedure cannot
\* trigger b's; otherwise the result has a's inputs, contains b's outputs in
\* addition to a's, and has the lesser of the universal and mandatory flags.
C24_SumOfRules ==
    pc = "added"
    => IF \/ ~rres.sum.self.universal /\ ~rres.sum.other.universal
          \/ NeedsMoreEnactments(rres.sum.other, rres.sum.self)
          \/ rres.sum.found = <<>>
       THEN rres.sum.result = Returned(<<>>)
       ELSE /\ rres.sum.result.error = ""
            /\ rres.sum.result.value # <<>>
            /\ rres.sum.result.value[1].inputs = rres.sum.self.inputs
            /\ Range(rres.sum.self.outputs) \cup Range(rres.sum.other.outputs)
                  \subseteq Range(rres.sum.result.value[1].outputs)
            /\ LesserFlags

\* C24 as amended: a + b is None also when a applies despite an enactment that
\* b neither needs nor applies despite, and the outputs of b are contained as
\* they are in the context under which a's procedure triggers b's.
C24_SumOfRulesInContext ==
    pc = "added"
    => IF \/ ~rres.sum.self.universal /\ ~rres.sum.other.universal
          \/ NeedsMoreEnactments(rres.sum.other, rres.sum.self)
          \/ DespiteMoreEnactments(rres.sum.self, rres.sum.other)
          \/ rres.sum.found = <<>>
       THEN rres.sum.result = Returned(<<>>)
       ELSE /\ rres.sum.result.error = ""
            /\ rres.sum.result.value # <<>>
            /\ rres.sum.result.value[1].inputs = rres.sum.self.inputs
            /\ Range(rres.sum.self.outputs)
                  \cup Range(NewContextEach(
                                 rres.sum.other.outputs,
                                 reversed(rres.sum.found[1])).value)
                  \subseteq Range(rres.sum.result.value[1].outputs)
            /\ LesserFlags

\* a MUST/ALL Rule added to a MAY/ALL Rule that has an output of its own and
\* the output of the first: the sum has both outputs once, and is MAY/ALL
C24_Witness ==
    /\ pc = "added"
    /\ rres.sum.self.universal /\ rres.sum.self.mandatory
    /\ rres.sum.other.universal /\ ~rres.sum.other.mandatory
    /\ rres.sum.self.enactments # <<>>
    /\ rres.sum.other.enactments # <<>>
    /\ rres.sum.result.value # <<>>
    /\ Len(rres.sum.other.outputs) = 2
    /\ Len(rres.sum.result.value[1].outputs) = 2
    /\ rres.sum.result.value[1].universal
    /\ ~rres.sum.result.value[1].mandatory

-----------------------------------------------------------------------------
(* Claims about FactorSequence.ordered_comparison *)

\* the item at position i of a sequence padded with None
ItemAt(factors, i) == IF i <= Len(factors) THEN factors[i] ELSE NoneF

\* the number of positions of two sequences zipped to the longer
Positions(self_seq, other_seq) ==
    IF Len(self_seq) >= Len(other_seq) THEN Len(self_seq) ELSE Len(other_seq)

\* the registers that may replace the running register at one position
Candidates(register, left, right, operation) ==
    IF IsNone(left)
    THEN IF IsNone(right) THEN <<register>> ELSE <<>>
    ELSE update_context_register(left, right, register, operation)

\* the registers reachable from a set of running registers over the
\* positions i and after
RECURSIVE ReachableFrom(_, _, _, _, _)
ReachableFrom(registers, self_seq, other_seq, operation, i) ==
    IF i > Positions(self_seq, other_seq) THEN registers
    ELSE ReachableFrom(
             UNION {Range(Candidates(register, ItemAt(self_seq, i),
                                     ItemAt(other_seq, i), operation)) :
                      register \in registers},
             self_seq, other_seq, operation, i + 1)

\* the candidates that are the first of their content among the candidates
FirstOfTheirContent(candidates) ==
    {k \in DOMAIN candidates :
        \A j \in 1..(k - 1) : Items(candidates[j]) # Items(candidates[k])}

\* the number of ways through the positions i and after in which no position
\* takes up a candidate of the same content twice for one running register
RECURSIVE Ways(_, _, _, _, _)
RECURSIVE WaysThrough(_, _, _, _, _, _)
WaysThrough(candidates, indices, self_seq, other_seq, operation, i) ==
    IF indices = {} THEN 0
    ELSE LET k == CHOOSE k \in indices : TRUE
         IN  Ways(candidates[k], self_seq, other_seq, operation, i + 1)
               + WaysThrough(candidates, indices \ {k}, self_seq, other_seq,
                             operation, i)
Ways(register, self_seq, other_seq, operation, i) ==
    IF i > Positions(self_seq, other_seq) THEN 1
    ELSE WaysThrough(
             Candidates(register, ItemAt(self_seq, i), ItemAt(other_seq, i),
                        operation),
             FirstOfTheirContent(
                 Candidates(register, ItemAt(self_seq, i),
                            ItemAt(other_seq, i), operation)),
             self_seq, other_seq, operation, i)

-----------------------------------------------------------------------------
(* Claims about groups of Holdings *)

\* every Holding needed is implied by some Holding of the group
EveryNeededIsImplied ==
    \A j \in DOMAIN hbuilt.value[2] :
        \E i \in DOMAIN hbuilt.value[1] :
            HoldingImplies(hbuilt.value[1][i], hbuilt.value[2][j], <<>>)
                = "True"

\* C26: HoldingGroup.explanations_implication(needed) yields at least one
\* explanation when every Holding in needed is implied by some Holding of the
\* group, and yields nothing, without raising any exception, when some
\* Holding in needed is implied by no Holding of the group, whichever
\* position that Holding has in needed.
C26_GroupSearchPrunesWithoutRaising ==
    pc = "searched"
    => IF EveryNeededIsImplied
       THEN hderived.registers # <<>>
       ELSE hderived = NoGen

-----------------------------------------------------------------------------
(* Claims about the sides of the registers that are yielded *)

\* each key of the register is a generic Factor of self and each value is a
\* generic Factor of other
FromSelfToOther(register, self, other) ==
    \A i \in DOMAIN register :
        /\ register[i][1] \in Range(HoldingGenericFactors(self))
        /\ register[i][2] \in Range(HoldingGenericFactors(other))

\* the comparisons of the Procedures of the two Rules yield nothing, so that
\* every register comes from the Rules and Holdings themselves
NothingFromProcedures ==
    /\ hyielded.forward = <<>>
    /\ hyielded.backward = <<>>

\* C27: in every register yielded by an explanations_* call on (self, other),
\* each key is a generic participant of self and each value is a generic
\* participant of other, also on the paths that compute the answer from
\* other's point of view (Holdings that are both invalid, an undecided
\* Holding contradicting a decided one).
C27_RegistersRunFromSelfToOther ==
    (pc = "compared" /\ NothingFromProcedures)
    => /\ \A i \in DOMAIN HoldingExplanationsImplication(
                              hself, hother, <<>>).registers :
            FromSelfToOther(
                HoldingExplanationsImplication(hself, hother, <<>>)
                    .registers[i],
                hself, hother)
       /\ \A i \in DOMAIN HoldingExplanationsContradiction(
                              hself, hother, <<>>).registers :
            FromSelfToOther(
                HoldingExplanationsContradiction(hself, hother, <<>>)
                    .registers[i],
                hself, hother)

-----------------------------------------------------------------------------
(* Claims about contradiction of an undecided Holding *)

\* C28: no Holding, decided or undecided, contradicts an undecided Holding:
\* for Holdings that are not exclusive, contradiction yields no explanation
\* whenever other.decided is false, so contradiction between a decided and an
\* undecided Holding holds in one direction at most.
C28_UndecidedIsNeverContradicted ==
    pc = "compared"
    => /\ ~hother.decided
            => /\ HoldingExplanationsContradiction(hself, hother, <<>>) = NoGen
               /\ hres.contradicts = "False"
       /\ hself.decided # hother.decided
            => ~ /\ hres.contradicts = "True"
                 /\ HoldingContradicts(hother, hself, <<>>) = "True"

\* an undecided Holding that contradicts a decided Holding, which does not
\* contradict it
C28_Witness ==
    /\ pc = "compared"
    /\ ~hself.decided
    /\ hother.decided
    /\ hres.contradicts = "True"
    /\ HoldingContradicts(hother, hself, <<>>) = "False"

-----------------------------------------------------------------------------
(* Claims about the starting context of a comparison *)

\* every register of the sequence can be merged with the starting context
CompatibleWithStarting(registers) ==
    \A i \in DOMAIN registers : ~merged_with(starting, registers[i]).none

\* C29: every register yielded by explanations_same_meaning,
\* explanations_implication or explanations_contradiction for a starting
\* context is compatible with it: it maps no key of the context to another
\* value and uses no value of the context for another key, so merging the
\* context with the register does not give None.
C29_YieldedRegistersKeepTheContext ==
    pc = "compared"
    => /\ CompatibleWithStarting(explanations_same_meaning(x, y, starting))
       /\ CompatibleWithStarting(explanations_implication(x, y, starting))
       /\ CompatibleWithStarting(explanations_contradiction(x, y, starting))

-----------------------------------------------------------------------------
(* Claims about the Holdings of an Opinion *)

\* C30: after any sequence of posit_holding, posit_holdings, clear_holdings
\* and get_anchors calls on an Opinion, Opinion.holdings is the list of the
\* distinct Holdings posited since the last clear_holdings, in order of first
\* positing; get_anchors, and a posit_holding call that raises TypeError,
\* leave it as it was.
C30_HoldingsAreThosePosited ==
    called.count > 0
    => /\ OpinionHoldingsOf(opinion) = DictKeys(posited)
       /\ called.operation = "get_anchors"
            => OpinionHoldingsOf(opinion) = called.before
       /\ (called.operation = "posit_holding" /\ called.error = "TypeError")
            => OpinionHoldingsOf(opinion) = called.before

=============================================================================
